---- MODULE Spec2Model ----
(***************************************************************************)
(* LeetBoard: the snapshot / baseline period-tracking engine.              *)
(*                                                                         *)
(* Three specifications share this module.                                 *)
(*   Spec          the engine: app instances (clients) working on the      *)
(*                 shared Firestore collections, one database or network   *)
(*                 interaction per step, freely interleaved; the database  *)
(*                 is reliable and the day does not change.                *)
(*   SpecSeq       the same steps, but an operation of one client runs to  *)
(*                 completion before another client moves; the clock       *)
(*                 advances and database calls may fail.                   *)
(*   SpecProgress  the pure progress functions applied to drawn inputs.    *)
(*                                                                         *)
(* xp is a multiple of 0.5 in the source; every xp field of the model      *)
(* holds the value in half-points (2 * xp), so 2.5 xp is 5.                *)
(***************************************************************************)
EXTENDS Integers, Sequences, FiniteSets, TLC

VARIABLES
  \* ---- Firestore (shared by all clients)
  usersCol,      \* collection 'users': sequence of user documents (index = id)
  snapshots,     \* collection 'leaderboardSnapshots': sequence of documents
  inflight,      \* updateDoc calls on snapshot documents issued and not yet landed
  jobsCol,       \* collection 'jobs': sequence of job documents (index = id)
  \* ---- environment
  now,           \* the current day, as seen in the reference time zone
  failures,      \* database failures injected so far
  addsLeft,      \* addUser operations that may still start
  \* ---- per client (one mounted App each)
  pc,            \* position of the client's running operation
  users,         \* React state `users` (locally loaded roster)
  memSnap,       \* React state weeklySnapshot / monthlySnapshot / yearlySnapshot
  loading,       \* React state `loading`
  op,            \* locals of the running operation
  allJobs,       \* React state `allJobs` (locally loaded jobs)
  jobOpsLeft,    \* job operations that may still be started
  lastCall,      \* per client, the last handler call observed: inputs and return value
  serial,        \* TRUE when operations run one at a time (SpecSeq)
  \* ---- the pure progress functions (SpecProgress)
  progCur, progSnap, progOut, prevEnd, prevOut,
  \* ---- one fetchUserStats call (SpecFetch)
  fetchIn,       \* the arguments, and the payload the API holds for the username
  fetchAttempt,  \* local `attempt`
  fetchPc,       \* "request", "backoff" or "done"
  fetchLog,      \* the requests issued and the delays waited, in order
  fetchOut,      \* the UserStats returned
  \* ---- one loadAllStats pass (SpecRank)
  rankIn,        \* userList, the fetch outcome of each user, the three snapshots
  rankOut,       \* userStats, weeklyStats, monthlyStats, yearlyStats, loading
  \* ---- the period keys of an instant (SpecKeys)
  keyIn,         \* the instant, a later instant, the caller's local time zone
  keyOut,        \* the keys computed for them
  \* ---- the previous-leaderboard modal of one App (SpecPrev)
  view,          \* React state of the modal
  viewOp,        \* locals of a running handleViewPreviousLeaderboard, or NULL
  \* ---- one batch loop over the roster (SpecBatch)
  pass           \* loop index, fetches started and returned, attempts

engineVars == <<usersCol, snapshots, inflight, jobsCol, now, failures, addsLeft, pc, users, memSnap,
                loading, op, allJobs, jobOpsLeft, lastCall, serial>>
progVars == <<progCur, progSnap, progOut, prevEnd, prevOut>>
fetchVars == <<fetchIn, fetchAttempt, fetchPc, fetchLog, fetchOut>>
rankVars == <<rankIn, rankOut>>
keyVars == <<keyIn, keyOut>>
viewVars == <<view, viewOp>>
passVars == <<pass>>
vars == <<usersCol, snapshots, inflight, jobsCol, now, failures, addsLeft, pc, users, memSnap, loading,
          op, allJobs, jobOpsLeft, lastCall, serial,
          progCur, progSnap, progOut, prevEnd, prevOut,
          fetchIn, fetchAttempt, fetchPc, fetchLog, fetchOut, rankIn, rankOut,
          keyIn, keyOut, view, viewOp, pass>>

NULL == [null |-> TRUE]

\* UserStats.error when the fetch succeeded (null in the source).
NoError == "null"

Max(a, b) == IF a >= b THEN a ELSE b

(***************************************************************************)
(* Progress engine (src/src/App.tsx)                                       *)
(***************************************************************************)

\* snapshot.users.find(u => u.username === username) ?? null
findSnapshotUser(snapshot, username) ==
  IF snapshot = NULL THEN NULL
  ELSE LET hits == {i \in 1..Len(snapshot.users) : snapshot.users[i].username = username}
       IN IF hits = {} THEN NULL
          ELSE snapshot.users[CHOOSE i \in hits : \A j \in hits : i <= j]

\* A plausible slip: the xp of a progress record taken as the difference of
\* the absolute xp values instead of being recomputed from the deltas.
computeProgressXpDiff(current, baseline) ==
  IF baseline = NULL
  THEN [current EXCEPT !.jobsApplied = 0, !.easy = 0, !.medium = 0, !.hard = 0,
                       !.total = 0, !.xp = 0, !.rank = 0]
  ELSE [username |-> current.username, name |-> current.name,
        jobsApplied |-> Max(0, current.jobsApplied - baseline.jobsApplied),
        easy |-> Max(0, current.easy - baseline.easy),
        medium |-> Max(0, current.medium - baseline.medium),
        hard |-> Max(0, current.hard - baseline.hard),
        total |-> Max(0, current.total - baseline.total),
        xp |-> Max(0, current.xp - baseline.xp),
        rank |-> 0, error |-> current.error]

\* A plausible slip: the deltas are not clamped at zero.
computeProgressNoClamp(current, baseline) ==
  IF baseline = NULL
  THEN [current EXCEPT !.jobsApplied = 0, !.easy = 0, !.medium = 0, !.hard = 0,
                       !.total = 0, !.xp = 0, !.rank = 0]
  ELSE LET jobsDelta == current.jobsApplied - baseline.jobsApplied
           easyDelta == current.easy - baseline.easy
           mediumDelta == current.medium - baseline.medium
           hardDelta == current.hard - baseline.hard
           totalDelta == current.total - baseline.total
       IN [username |-> current.username, name |-> current.name,
           jobsApplied |-> jobsDelta, easy |-> easyDelta, medium |-> mediumDelta,
           hard |-> hardDelta, total |-> totalDelta,
           xp |-> jobsDelta + 2 * easyDelta + 4 * mediumDelta + 8 * hardDelta,
           rank |-> 0, error |-> current.error]

\* A plausible slip: the total delta taken against the wrong baseline field.
computeProgressTotalOff(current, baseline) ==
  IF baseline = NULL
  THEN [current EXCEPT !.jobsApplied = 0, !.easy = 0, !.medium = 0, !.hard = 0,
                       !.total = 0, !.xp = 0, !.rank = 0]
  ELSE LET jobsDelta == Max(0, current.jobsApplied - baseline.jobsApplied)
           easyDelta == Max(0, current.easy - baseline.easy)
           mediumDelta == Max(0, current.medium - baseline.medium)
           hardDelta == Max(0, current.hard - baseline.hard)
           totalDelta == Max(0, current.total - baseline.easy)
       IN [username |-> current.username, name |-> current.name,
           jobsApplied |-> jobsDelta, easy |-> easyDelta, medium |-> mediumDelta,
           hard |-> hardDelta, total |-> totalDelta,
           xp |-> jobsDelta + 2 * easyDelta + 4 * mediumDelta + 8 * hardDelta,
           rank |-> 0, error |-> current.error]

\* A plausible slip: a user without a baseline is shown with the full
\* lifetime stats instead of zero progress.
computeProgressFullCredit(current, baseline) ==
  IF baseline = NULL
  THEN [current EXCEPT !.rank = 0]
  ELSE LET jobsDelta == Max(0, current.jobsApplied - baseline.jobsApplied)
           easyDelta == Max(0, current.easy - baseline.easy)
           mediumDelta == Max(0, current.medium - baseline.medium)
           hardDelta == Max(0, current.hard - baseline.hard)
           totalDelta == Max(0, current.total - baseline.total)
       IN [username |-> current.username, name |-> current.name,
           jobsApplied |-> jobsDelta, easy |-> easyDelta, medium |-> mediumDelta,
           hard |-> hardDelta, total |-> totalDelta,
           xp |-> jobsDelta + 2 * easyDelta + 4 * mediumDelta + 8 * hardDelta,
           rank |-> 0, error |-> current.error]

\* computeProgress(current, baseline): baseline is NULL or a snapshot entry.
\* `baseline.jobsApplied || 0` is baseline.jobsApplied for every number.
computeProgress(current, baseline) ==
  IF baseline = NULL
  THEN [current EXCEPT !.jobsApplied = 0, !.easy = 0, !.medium = 0, !.hard = 0,
                       !.total = 0, !.xp = 0, !.rank = 0]
  ELSE LET jobsDelta == Max(0, current.jobsApplied - baseline.jobsApplied)
           easyDelta == Max(0, current.easy - baseline.easy)
           mediumDelta == Max(0, current.medium - baseline.medium)
           hardDelta == Max(0, current.hard - baseline.hard)
           totalDelta == Max(0, current.total - baseline.total)
           xpDelta == jobsDelta + 2 * easyDelta + 4 * mediumDelta + 8 * hardDelta
       IN [username |-> current.username, name |-> current.name,
           jobsApplied |-> jobsDelta, easy |-> easyDelta, medium |-> mediumDelta,
           hard |-> hardDelta, total |-> totalDelta, xp |-> xpDelta,
           rank |-> 0, error |-> current.error]

\* A plausible slip: a user absent from the start snapshot gets no credit,
\* as in computeProgress.
prevStatOfNoCredit(endUser, startSnap) ==
  LET startUser == findSnapshotUser(startSnap, endUser.username)
      base(f) == IF startUser = NULL THEN endUser[f] ELSE startUser[f]
      jobsDelta == Max(0, endUser.jobsApplied - base("jobsApplied"))
      easyDelta == Max(0, endUser.easy - base("easy"))
      mediumDelta == Max(0, endUser.medium - base("medium"))
      hardDelta == Max(0, endUser.hard - base("hard"))
      xpDelta == jobsDelta + 2 * easyDelta + 4 * mediumDelta + 8 * hardDelta
  IN [username |-> endUser.username, name |-> endUser.name,
      jobsApplied |-> jobsDelta, easy |-> easyDelta, medium |-> mediumDelta,
      hard |-> hardDelta, total |-> easyDelta + mediumDelta + hardDelta,
      xp |-> xpDelta, rank |-> 0, error |-> NoError]

\* computePrevStats(endSnap, startSnap): the ranked previous-period list.
\* `startUser?.easy || 0` is 0 for a user absent from the start snapshot.
prevStatOf(endUser, startSnap) ==
  LET startUser == findSnapshotUser(startSnap, endUser.username)
      base(f) == IF startUser = NULL THEN 0 ELSE startUser[f]
      jobsDelta == Max(0, endUser.jobsApplied - base("jobsApplied"))
      easyDelta == Max(0, endUser.easy - base("easy"))
      mediumDelta == Max(0, endUser.medium - base("medium"))
      hardDelta == Max(0, endUser.hard - base("hard"))
      xpDelta == jobsDelta + 2 * easyDelta + 4 * mediumDelta + 8 * hardDelta
  IN [username |-> endUser.username, name |-> endUser.name,
      jobsApplied |-> jobsDelta, easy |-> easyDelta, medium |-> mediumDelta,
      hard |-> hardDelta, total |-> easyDelta + mediumDelta + hardDelta,
      xp |-> xpDelta, rank |-> 0, error |-> NoError]

\* Array.prototype.sort is stable: insertion of x behind every element that
\* does not sort after it, for the comparator (a, b) => b.xp - a.xp.
RECURSIVE insertByXp(_, _)
insertByXp(x, s) ==
  IF s = <<>> THEN <<x>>
  ELSE IF x.xp > Head(s).xp THEN <<x>> \o s
       ELSE <<Head(s)>> \o insertByXp(x, Tail(s))

RECURSIVE sortByXp(_)
sortByXp(s) ==
  IF s = <<>> THEN <<>>
  ELSE insertByXp(s[Len(s)], sortByXp(SubSeq(s, 1, Len(s) - 1)))

withRanks(s) == [i \in 1..Len(s) |-> [s[i] EXCEPT !.rank = i]]

computePrevStats(endSnap, startSnap) ==
  withRanks(sortByXp([i \in 1..Len(endSnap.users) |-> prevStatOf(endSnap.users[i], startSnap)]))

(***************************************************************************)
(* SpecProgress: computeProgress and computePrevStats on drawn inputs      *)
(***************************************************************************)

\* Largest counter value drawn for a stats record or a baseline entry.
MaxCount == 1

Usernames == {"alice", "bob"}

\* The four counters and jobsApplied; xp as fetchUserStats computes it
\* (App.tsx:228), in half-points.
statsRecord(u, j, e, m, h, t) ==
  [username |-> u, name |-> "N", jobsApplied |-> j, easy |-> e, medium |-> m,
   hard |-> h, total |-> t, xp |-> j + 2 * e + 4 * m + 8 * h, rank |-> 0, error |-> NoError]

snapshotEntry(u, j, e, m, h, t) ==
  [username |-> u, name |-> "N", jobsApplied |-> j, easy |-> e, medium |-> m,
   hard |-> h, total |-> t, xp |-> j + 2 * e + 4 * m + 8 * h]

\* The scenario of the specification: baseline {5,2,1,8, jobs 1}, current {7,2,1,10, jobs 2}.
ScenarioCurrent == statsRecord("alice", 2, 7, 2, 1, 10)
ScenarioBaseline == snapshotEntry("alice", 1, 5, 2, 1, 8)

\* What fetchUserStats returns for a failed fetch (lines 211-221).
FailedStats(jobsApplied) ==
  [statsRecord("alice", jobsApplied, 0, 0, 0, 0) EXCEPT !.xp = 0, !.error = "User not found"]

DrawnStats ==
  {statsRecord("alice", j, e, m, h, t) :
     j \in 0..MaxCount, e \in 0..MaxCount, m \in 0..MaxCount, h \in 0..MaxCount, t \in 0..MaxCount}
  \cup {ScenarioCurrent} \cup {FailedStats(j) : j \in 0..MaxCount}

DrawnEntries ==
  {snapshotEntry("alice", j, e, m, h, t) :
     j \in 0..MaxCount, e \in 0..MaxCount, m \in 0..MaxCount, h \in 0..MaxCount, t \in 0..MaxCount}
  \cup {ScenarioBaseline}

OtherEntry == snapshotEntry("bob", 1, 1, 0, 1, 2)

\* An entry whose xp equals that of one hard problem, from three problems.
TieEntry == snapshotEntry("bob", 0, 2, 1, 0, 3)

snapshotDoc(period, key, created, entries) ==
  [period |-> period, periodKey |-> key, createdAt |-> created, users |-> entries]

\* The baseline snapshots drawn around an entry b: absent, empty, without
\* the user, with the user first or behind another user.
DrawnSnapshots(b) ==
  {NULL} \cup {snapshotDoc("weekly", <<2026, 1>>, 0, us) :
                 us \in {<<>>, <<OtherEntry>>, <<b>>, <<OtherEntry, b>>, <<b, OtherEntry>>}}

asEntry(stat) ==
  [username |-> stat.username, name |-> stat.name, jobsApplied |-> stat.jobsApplied,
   easy |-> stat.easy, medium |-> stat.medium, hard |-> stat.hard,
   total |-> stat.total, xp |-> stat.xp]

ComputeProgressStep ==
  /\ progOut = NULL
  /\ progOut' = computeProgress(progCur, findSnapshotUser(progSnap, progCur.username))
  /\ UNCHANGED <<progCur, progSnap, prevEnd, prevOut>>
  /\ UNCHANGED <<engineVars, fetchVars, rankVars, keyVars, viewVars, passVars>>

\* handleViewPreviousLeaderboard calls computePrevStats only with a start snapshot.
ComputePrevStep ==
  /\ prevOut = NULL
  /\ progSnap # NULL
  /\ prevOut' = [ranked |-> computePrevStats(prevEnd, progSnap)]
  /\ UNCHANGED <<progCur, progSnap, prevEnd, progOut>>
  /\ UNCHANGED <<engineVars, fetchVars, rankVars, keyVars, viewVars, passVars>>

NextProgress ==
  \/ ComputeProgressStep
  \/ ComputePrevStep

(***************************************************************************)
(* Period keys (src/unnamed/part_001, utils/dateUtils)                     *)
(*                                                                         *)
(* An instant is a day number (days since 1970-01-01) as seen in the       *)
(* reference time zone.  A key is the tuple of the numbers the format      *)
(* string prints: "RRRR-'W'II" is <<ISO week-year, ISO week>>, 'yyyy-MM'   *)
(* is <<year, month>>, 'yyyy' is <<year>>; the zero-padded strings order   *)
(* as the tuples do.                                                       *)
(***************************************************************************)

\* Proleptic Gregorian calendar: the civil date of a day number.
civilFromDays(day) ==
  LET z == day + 719468
      era == z \div 146097
      doe == z - era * 146097
      yoe == (doe - doe \div 1460 + doe \div 36524 - doe \div 146096) \div 365
      doy == doe - (365 * yoe + yoe \div 4 - yoe \div 100)
      mp == (5 * doy + 2) \div 153
      d == doy - (153 * mp + 2) \div 5 + 1
      m == IF mp < 10 THEN mp + 3 ELSE mp - 9
  IN [year |-> yoe + era * 400 + (IF m <= 2 THEN 1 ELSE 0), month |-> m, date |-> d]

daysFromCivil(y, m, d) ==
  LET yy == IF m <= 2 THEN y - 1 ELSE y
      era == yy \div 400
      yoe == yy - era * 400
      doy == (153 * (IF m > 2 THEN m - 3 ELSE m + 9) + 2) \div 5 + d - 1
      doe == yoe * 365 + yoe \div 4 - yoe \div 100 + doy
  IN era * 146097 + doe - 719468

\* Date.prototype.getDay: 0 is Sunday; 1970-01-01 was a Thursday.
getDay(day) == (day + 4) % 7

\* date-fns startOfISOWeek: back to Monday.
startOfISOWeek(day) == day - ((getDay(day) + 6) % 7)

\* date-fns getISOWeekYear.
getISOWeekYear(day) ==
  LET year == civilFromDays(day).year
      startOfNextYear == startOfISOWeek(daysFromCivil(year + 1, 1, 4))
      startOfThisYear == startOfISOWeek(daysFromCivil(year, 1, 4))
  IN IF day >= startOfNextYear THEN year + 1
     ELSE IF day >= startOfThisYear THEN year
     ELSE year - 1

\* date-fns getISOWeek.
getISOWeek(day) ==
  (startOfISOWeek(day) - startOfISOWeek(daysFromCivil(getISOWeekYear(day), 1, 4))) \div 7 + 1

getWeeklyPeriodKey(date) == <<getISOWeekYear(date), getISOWeek(date)>>

getMonthlyPeriodKey(date) == <<civilFromDays(date).year, civilFromDays(date).month>>

getYearlyPeriodKey(date) == <<civilFromDays(date).year>>

\* getPeriodKey(type), with getNow() = date.
getPeriodKey(type, date) ==
  CASE type = "weekly" -> getWeeklyPeriodKey(date)
    [] type = "monthly" -> getMonthlyPeriodKey(date)
    [] type = "yearly" -> getYearlyPeriodKey(date)

Periods == {"weekly", "monthly", "yearly"}

\* The order in which ensureSnapshotsForCurrentPeriods awaits the three calls.
PeriodOrder == <<"weekly", "monthly", "yearly">>

(***************************************************************************)
(* SpecKeys: the keys of an instant for a caller in some time zone         *)
(*                                                                         *)
(* A Date is its instant, in hours since 1970-01-01T00:00Z.  The fields a  *)
(* Date shows (getFullYear, getDate, getHours, and what date-fns format    *)
(* prints) are those of the caller's local zone, tz hours ahead of UTC.    *)
(* A formatted key is the sequence of its character codes.                 *)
(***************************************************************************)

\* TIMEZONE = 'America/Los_Angeles', as hours ahead of UTC on the instants
\* drawn (Pacific Standard Time).
TIMEZONE == 0 - 8

\* The local calendar day and hour of a Date.
localDay(date, tz) == (date + tz) \div 24

localHour(date, tz) == (date + tz) % 24

\* new Date(year, month, day, hour) in the caller's zone.
fromLocal(day, hour, tz) == day * 24 + hour - tz

\* A plausible slip: the Date is handed on as it is.
toZonedTimeUnshifted(date, tz) == date

\* date-fns-tz toZonedTime(date, TIMEZONE): the Date whose local fields show
\* the wall clock of TIMEZONE at the instant of `date`.
toZonedTime(date, tz) == fromLocal(localDay(date, TIMEZONE), localHour(date, TIMEZONE), tz)

\* getNow(), called at `instant`.
getNow(instant, tz) == toZonedTime(instant, tz)

\* The decimal digits of n, zero-padded to `width`, as character codes.
RECURSIVE padded(_, _)
padded(n, width) ==
  IF width = 0 THEN <<>> ELSE padded(n \div 10, width - 1) \o <<48 + (n % 10)>>

\* format(date, "RRRR-'W'II"), format(date, 'yyyy-MM'), format(date, 'yyyy'):
\* the local fields of the Date are printed; the timeZone option only
\* serves the zone tokens, which these patterns do not have.
formatKey(period, date, tz) ==
  LET day == localDay(date, tz)
  IN CASE period = "weekly" ->
            padded(getISOWeekYear(day), 4) \o <<45, 87>> \o padded(getISOWeek(day), 2)
       [] period = "monthly" ->
            padded(civilFromDays(day).year, 4) \o <<45>> \o padded(civilFromDays(day).month, 2)
       [] period = "yearly" -> padded(civilFromDays(day).year, 4)

\* getPeriodKey(type) of firebase.ts, and the keys of
\* addUserToCurrentSnapshots: get*PeriodKey() with the default date = getNow().
currentKeyNow(period, instant, tz) == formatKey(period, getNow(instant, tz), tz)

\* date-fns subWeeks: the local date moved back by 7 days a week.
subWeeks(date, tz, amount) ==
  fromLocal(localDay(date, tz) - 7 * amount, localHour(date, tz), tz)

\* date-fns getDaysInMonth.
getDaysInMonth(year, month) ==
  IF month = 12 THEN 31
  ELSE daysFromCivil(year, month + 1, 1) - daysFromCivil(year, month, 1)

\* date-fns subMonths: the same day of the month `amount` months back, or
\* the last day of that month when it is shorter.
subMonths(date, tz, amount) ==
  LET civil == civilFromDays(localDay(date, tz))
      months == civil.year * 12 + (civil.month - 1) - amount
      year == months \div 12
      month == (months % 12) + 1
      dayOfMonth == IF civil.date <= getDaysInMonth(year, month) THEN civil.date
                    ELSE getDaysInMonth(year, month)
  IN fromLocal(daysFromCivil(year, month, dayOfMonth), localHour(date, tz), tz)

\* date-fns subYears(date, amount) is subMonths(date, amount * 12).
subYears(date, tz, amount) == subMonths(date, tz, amount * 12)

\* handleViewPreviousLeaderboard lines 736-762: prevKey is computed from
\* now = new Date(), moved back one period.
prevKey(period, instant, tz) ==
  CASE period = "weekly" -> formatKey("weekly", subWeeks(instant, tz, 1), tz)
    [] period = "monthly" -> formatKey("monthly", subMonths(instant, tz, 1), tz)
    [] period = "yearly" -> formatKey("yearly", subYears(instant, tz, 1), tz)

\* Every key the App computes for a caller in zone tz: the current keys at
\* two instants and the previous-period keys at the first.
keysComputed(instant, later, tz) ==
  [current |-> [p \in Periods |-> currentKeyNow(p, instant, tz)],
   currentLater |-> [p \in Periods |-> currentKeyNow(p, later, tz)],
   previous |-> [p \in Periods |-> prevKey(p, instant, tz)]]

\* The local zones of the callers drawn: Los Angeles, UTC, Tokyo.
Zones == {TIMEZONE, 0, 9}

\* The first instant drawn: 2025-12-26T00:00Z.
FirstInstant == daysFromCivil(2025, 12, 26) * 24

\* Hours after FirstInstant up to which instants are drawn: past the start
\* of ISO week 2026-W02.
KeyWindow == 264

\* Hours between the two instants drawn: within a day, within a week, and
\* exactly one week.
Gaps == {1, 23, 72, 168}

InitKeyVars ==
  /\ keyIn = NULL
  /\ keyOut = NULL

ComputeKeysStep ==
  /\ keyIn # NULL
  /\ keyOut = NULL
  /\ keyOut' = keysComputed(keyIn.instant, keyIn.later, keyIn.tz)
  /\ UNCHANGED <<keyIn, engineVars, progVars, fetchVars, rankVars, viewVars, passVars>>

NextKeys == ComputeKeysStep

(***************************************************************************)
(* The engine: clients on the shared collections                           *)
(***************************************************************************)

Clients == {"c1", "c2"}

Names == {"N"}

\* The day the model starts on: Wednesday 2025-12-31 (ISO week 2026-W01);
\* the next day starts a new month and a new year inside the same ISO week.
StartDay == daysFromCivil(2025, 12, 31)

\* Days the clock may advance.
MaxTicks == 1

\* addUser operations started, over all clients.
MaxAdds == 2

\* The same, when interleaved clients start on an empty database.
MaxAddsFresh == 1

\* Database calls that fail, over all clients.
MaxFailures == 1

\* What the stats API holds for a username on a day: the counts differ from
\* user to user and grow by one easy problem a day.
upstreamSolved(username, date) ==
  LET grown == date - StartDay
  IN IF username = "alice"
     THEN [status |-> "success", easySolved |-> 1 + grown, mediumSolved |-> 0,
           hardSolved |-> 0, totalSolved |-> 1 + grown]
     ELSE [status |-> "success", easySolved |-> 2 + grown, mediumSolved |-> 1,
           hardSolved |-> 1, totalSolved |-> 4 + grown]

\* What one fetchUserStats call ends with: the payload of a successful
\* answer, or an error (user not found, or retries exhausted).
FetchOutcomes(username, date) == {upstreamSolved(username, date), [status |-> "error"]}

\* The UserStats record fetchUserStats(username, jobsApplied) returns.
fetchUserStats(username, jobsApplied, outcome) ==
  IF outcome.status # "success"
  THEN [username |-> username, jobsApplied |-> jobsApplied, easy |-> 0, medium |-> 0,
        hard |-> 0, total |-> 0, xp |-> 0, rank |-> 0, error |-> "User not found"]
  ELSE [username |-> username, jobsApplied |-> jobsApplied,
        easy |-> outcome.easySolved, medium |-> outcome.mediumSolved,
        hard |-> outcome.hardSolved, total |-> outcome.totalSolved,
        xp |-> jobsApplied + 2 * outcome.easySolved + 4 * outcome.mediumSolved
               + 8 * outcome.hardSolved,
        rank |-> 0, error |-> NoError]

\* { ...s, name }
withName(s, name) ==
  [f \in DOMAIN s \cup {"name"} |-> IF f = "name" THEN name ELSE s[f]]

BATCH_SIZE == 3

Min(a, b) == IF a <= b THEN a ELSE b

\* loadUsersFromFirestore's userList: every document with its id.
userList(col) ==
  [i \in 1..Len(col) |-> [id |-> i, username |-> col[i].username, name |-> col[i].name,
                          jobsApplied |-> col[i].jobsApplied]]

\* { id: doc.id, ...doc.data() }
withId(col, i) ==
  [id |-> i, period |-> col[i].period, periodKey |-> col[i].periodKey,
   createdAt |-> col[i].createdAt, users |-> col[i].users]

\* A plausible slip: the baseline keeps the username but zeroes the counts.
snapshotUsersZeroed(currentStats) ==
  [i \in 1..Len(currentStats) |->
     [username |-> currentStats[i].username, name |-> currentStats[i].name,
      jobsApplied |-> 0, easy |-> 0, medium |-> 0, hard |-> 0, total |-> 0, xp |-> 0]]

\* currentStats.map(user => ({ username, name, jobsApplied, easy, medium, hard, total, xp }))
snapshotUsers(currentStats) ==
  [i \in 1..Len(currentStats) |->
     [username |-> currentStats[i].username, name |-> currentStats[i].name,
      jobsApplied |-> currentStats[i].jobsApplied, easy |-> currentStats[i].easy,
      medium |-> currentStats[i].medium, hard |-> currentStats[i].hard,
      total |-> currentStats[i].total, xp |-> currentStats[i].xp]]

\* The documents the existence query of ensureSnapshot / loadSnapshotByKey matches.
matchingDocs(col, period, periodKey) ==
  {i \in 1..Len(col) : col[i].period = period /\ col[i].periodKey = periodKey}

\* The job documents that exist: deleteDoc drops a document, its id is
\* never reused.
liveJobs(col) == {i \in 1..Len(col) : col[i].exists}

\* loadAllJobs line 130: { id: doc.id, ...doc.data() }
jobWithId(col, i) ==
  [id |-> i, username |-> col[i].username, status |-> col[i].status,
   createdAt |-> col[i].createdAt]

RECURSIVE jobDocsFrom(_, _)
jobDocsFrom(col, i) ==
  IF i > Len(col) THEN <<>>
  ELSE (IF col[i].exists THEN <<jobWithId(col, i)>> ELSE <<>>) \o jobDocsFrom(col, i + 1)

\* jobsList.sort((a, b) => timeB - timeA): one element put in its place,
\* behind the elements that are not older (the sort is stable).
insertJob(job, sorted) ==
  LET before == {k \in 1..Len(sorted) : sorted[k].createdAt >= job.createdAt}
      n == Cardinality(before)
  IN SubSeq(sorted, 1, n) \o <<job>> \o SubSeq(sorted, n + 1, Len(sorted))

RECURSIVE sortJobs(_)
sortJobs(list) ==
  IF list = <<>> THEN <<>>
  ELSE insertJob(list[Len(list)], sortJobs(SubSeq(list, 1, Len(list) - 1)))

\* loadAllJobs lines 129-141: every job document, most recent first.
jobsList(col) == sortJobs(jobDocsFrom(col, 1))

\* syncJobCounts lines 673-677: jobCounts.get(username) || 0.
jobCounts(col, username) == Cardinality({i \in liveJobs(col) : col[i].username = username})

NoResults == [p \in Periods |-> NULL]

IdleOp ==
  [kind |-> "none", username |-> "", name |-> "", stats |-> NULL, roster |-> <<>>,
   cur |-> <<>>, period |-> 0, periodKey |-> <<>>, results |-> NoResults, created |-> {},
   patchKeys |-> NULL, patchRead |-> <<>>, patchErr |-> FALSE,
   jobId |-> 0, userToUpdate |-> NULL, written |-> {}]

\* Nothing stored yet, no App mounted.
InitFresh ==
  /\ usersCol = <<>>
  /\ snapshots = <<>>
  /\ inflight = {}
  /\ jobsCol = <<>>
  /\ allJobs = [c \in Clients |-> <<>>]
  /\ lastCall = [c \in Clients |-> NULL]
  /\ now = StartDay
  /\ failures = 0
  /\ pc = [c \in Clients |-> "closed"]
  /\ users = [c \in Clients |-> <<>>]
  /\ memSnap = [c \in Clients |-> NoResults]
  /\ loading = [c \in Clients |-> TRUE]
  /\ op = [c \in Clients |-> IdleOp]

\* The three snapshots of StartDay as the first mount on an empty roster
\* creates them.
LoadedSnapshots ==
  [i \in 1..Len(PeriodOrder) |->
     [period |-> PeriodOrder[i], periodKey |-> getPeriodKey(PeriodOrder[i], StartDay),
      createdAt |-> StartDay, users |-> <<>>]]

\* Every App has mounted, one after the other, on the empty roster: the
\* state the engine is in when the first users are about to be added.
InitLoaded ==
  /\ usersCol = <<>>
  /\ snapshots = LoadedSnapshots
  /\ inflight = {}
  /\ jobsCol = <<>>
  /\ allJobs = [c \in Clients |-> <<>>]
  /\ lastCall = [c \in Clients |-> NULL]
  /\ now = StartDay
  /\ failures = 0
  /\ pc = [c \in Clients |-> "idle"]
  /\ users = [c \in Clients |-> <<>>]
  /\ memSnap = [c \in Clients |->
                  [p \in Periods |->
                     withId(LoadedSnapshots, CHOOSE i \in 1..Len(PeriodOrder) : PeriodOrder[i] = p)]]
  /\ loading = [c \in Clients |-> FALSE]
  /\ op = [c \in Clients |-> IdleOp]

InitProgressVars ==
  /\ progCur = NULL
  /\ progSnap = NULL
  /\ progOut = NULL
  /\ prevEnd = NULL
  /\ prevOut = NULL

\* A database call may fail while the failure budget lasts; the interleaved
\* specification keeps the database reliable.
CanFail == serial /\ failures < MaxFailures

\* A client is busy from the start of an operation until its last write landed.
Busy(c) == pc[c] \notin {"closed", "idle"} \/ \E w \in inflight : w.client = c

\* The Firestore client sends its writes in the order issued and overlays
\* its pending writes on what it reads: a read of the snapshots by a client
\* sees every updateDoc that client issued before.
OwnWritesVisible(c) == \A w \in inflight : w.client # c

\* Under SpecSeq a client moves only while no other client is busy.
MayMove(c) == serial => \A d \in Clients \ {c} : ~Busy(d)

Tick ==
  /\ serial
  /\ now < StartDay + MaxTicks
  /\ UNCHANGED <<serial, jobsCol, allJobs, jobOpsLeft, lastCall, progVars, fetchVars, rankVars, keyVars, viewVars, passVars>>
  /\ now' = now + 1
  /\ UNCHANGED <<usersCol, snapshots, inflight, failures, addsLeft, pc, users, memSnap,
                 loading, op>>

\* useEffect on mount: loadAllData() with no override.
Mount(c) ==
  /\ pc[c] = "closed"
  /\ MayMove(c)
  /\ UNCHANGED <<serial, jobsCol, allJobs, jobOpsLeft, lastCall, progVars, fetchVars, rankVars, keyVars, viewVars, passVars>>
  /\ pc' = [pc EXCEPT ![c] = "sync"]
  /\ op' = [op EXCEPT ![c] = [IdleOp EXCEPT !.kind = "load"]]
  /\ UNCHANGED <<usersCol, snapshots, inflight, now, failures, addsLeft, users, memSnap,
                 loading>>

\* A plausible slip: every user document is rewritten.
syncTargetsAll(jobs, userDocs) == 1..Len(userDocs)

\* syncJobCounts lines 682-691: the user documents whose jobsApplied (|| 0)
\* differs from the number of jobs counted for their username.
syncTargets(jobs, userDocs) ==
  {i \in 1..Len(userDocs) : jobCounts(jobs, userDocs[i].username) # userDocs[i].jobsApplied}

\* loadAllData step 1, syncJobCounts: the jobs are counted by username and
\* every user document whose counter differs is rewritten; op.written keeps
\* which ones.  A failed scan is caught and nothing is written.
SyncJobCounts(c) ==
  /\ pc[c] = "sync"
  /\ MayMove(c)
  /\ UNCHANGED <<serial, jobsCol, allJobs, jobOpsLeft, lastCall, progVars, fetchVars, rankVars, keyVars, viewVars, passVars>>
  /\ \/ /\ usersCol' = [i \in 1..Len(usersCol) |->
                          IF i \in syncTargets(jobsCol, usersCol)
                          THEN [usersCol[i] EXCEPT
                                  !.jobsApplied = jobCounts(jobsCol, usersCol[i].username)]
                          ELSE usersCol[i]]
        /\ op' = [op EXCEPT ![c].period = 1, ![c].patchRead = <<>>, ![c].patchKeys = NULL,
                             ![c].stats = NULL,
                             ![c].written = syncTargets(jobsCol, usersCol)]
        /\ UNCHANGED failures
     \/ /\ CanFail
        /\ failures' = failures + 1
        /\ op' = [op EXCEPT ![c].period = 1, ![c].patchRead = <<>>, ![c].patchKeys = NULL,
                             ![c].stats = NULL]
        /\ UNCHANGED usersCol
  /\ pc' = [pc EXCEPT ![c] = IF op[c].kind = "addUser"
                             THEN (IF op[c].roster = <<>> THEN "ensure" ELSE "fetch")
                             ELSE "loadUsers"]
  /\ UNCHANGED <<snapshots, inflight, now, addsLeft, users, memSnap, loading>>

\* loadAllData step 2: currentUsers = usersOverride || await loadUsersFromFirestore().
LoadUsers(c) ==
  /\ pc[c] = "loadUsers"
  /\ MayMove(c)
  /\ UNCHANGED <<serial, jobsCol, allJobs, jobOpsLeft, lastCall, progVars, fetchVars, rankVars, keyVars, viewVars, passVars>>
  /\ \/ /\ users' = [users EXCEPT ![c] = userList(usersCol)]
        /\ op' = [op EXCEPT ![c].roster = userList(usersCol)]
        /\ pc' = [pc EXCEPT ![c] = IF usersCol = <<>> THEN "ensure" ELSE "fetch"]
        /\ UNCHANGED failures
     \/ \* getDocs throws: caught, logged, [] is returned
        /\ CanFail
        /\ failures' = failures + 1
        /\ op' = [op EXCEPT ![c].roster = <<>>]
        /\ pc' = [pc EXCEPT ![c] = "ensure"]
        /\ UNCHANGED users
  /\ UNCHANGED <<usersCol, snapshots, inflight, now, addsLeft, memSnap, loading>>

\* The sequences of fetch outcomes of one batch.
RECURSIVE outcomeSeqs(_, _)
outcomeSeqs(batch, date) ==
  IF batch = <<>> THEN {<<>>}
  ELSE {<<o>> \o s : o \in FetchOutcomes(Head(batch).username, date),
                      s \in outcomeSeqs(Tail(batch), date)}

\* loadAllData step 3: one batch of at most BATCH_SIZE fetches, awaited
\* together; the names are added to the results (line 815).
FetchBatch(c) ==
  /\ pc[c] = "fetch"
  /\ MayMove(c)
  /\ UNCHANGED <<serial, jobsCol, allJobs, jobOpsLeft, lastCall, progVars, fetchVars, rankVars, keyVars, viewVars, passVars>>
  /\ LET i == Len(op[c].cur)
         n == Len(op[c].roster)
         batch == SubSeq(op[c].roster, i + 1, Min(i + BATCH_SIZE, n))
     IN \E outs \in outcomeSeqs(batch, now) :
          LET batchResults ==
                [k \in 1..Len(batch) |->
                   withName(fetchUserStats(batch[k].username, batch[k].jobsApplied, outs[k]),
                            batch[k].name)]
          IN /\ op' = [op EXCEPT ![c].cur = op[c].cur \o batchResults]
             /\ pc' = [pc EXCEPT ![c] = IF i + BATCH_SIZE < n THEN "fetch" ELSE "ensure"]
  /\ UNCHANGED <<usersCol, snapshots, inflight, now, failures, addsLeft, users, memSnap,
                 loading>>

\* ensureSnapshot(period, currentStats) returns `result` to
\* ensureSnapshotsForCurrentPeriods, which awaits the next granularity; after
\* the third, loadAllData publishes the three snapshots (lines 820-822),
\* loadAllStats sets users and resets loading (lines 581, 663), and
\* loadAllJobs is awaited (line 828).
EnsureReturns(c, periodKey, result, wrote) ==
  LET period == PeriodOrder[op[c].period]
      results == [op[c].results EXCEPT ![period] = result]
  IN IF op[c].period < Len(PeriodOrder)
     THEN /\ op' = [op EXCEPT ![c].results = results,
                              ![c].period = op[c].period + 1,
                              ![c].created = IF wrote THEN op[c].created \cup {period}
                                             ELSE op[c].created]
          /\ pc' = [pc EXCEPT ![c] = "ensure"]
          /\ UNCHANGED <<users, memSnap, loading>>
     ELSE /\ memSnap' = [memSnap EXCEPT ![c] = results]
          /\ users' = [users EXCEPT ![c] = op[c].roster]
          /\ loading' = [loading EXCEPT ![c] = FALSE]
          /\ op' = [op EXCEPT ![c] = IdleOp]
          /\ pc' = [pc EXCEPT ![c] = "loadJobs"]

\* A plausible slip: the existence check is skipped and a snapshot is
\* created on every call.
EnsureQueryBlind(c) ==
  /\ pc[c] = "ensure"
  /\ MayMove(c)
  /\ UNCHANGED <<serial, jobsCol, allJobs, jobOpsLeft, lastCall, progVars, fetchVars, rankVars, keyVars, viewVars, passVars>>
  /\ pc' = [pc EXCEPT ![c] = "ensureAdd"]
  /\ op' = [op EXCEPT ![c].periodKey = getPeriodKey(PeriodOrder[op[c].period], now)]
  /\ UNCHANGED <<users, memSnap, loading>>
  /\ UNCHANGED <<usersCol, snapshots, inflight, now, failures, addsLeft>>

\* ensureSnapshot lines 76-93: the period key, the existence query with
\* limit(1), and the early return when a document matches.  With several
\* matching documents the query returns one of them.
EnsureQuery(c) ==
  /\ pc[c] = "ensure"
  /\ MayMove(c)
  /\ OwnWritesVisible(c)
  /\ UNCHANGED <<serial, jobsCol, allJobs, jobOpsLeft, lastCall, progVars, fetchVars, rankVars, keyVars, viewVars, passVars>>
  /\ LET period == PeriodOrder[op[c].period]
         periodKey == getPeriodKey(period, now)
         found == matchingDocs(snapshots, period, periodKey)
     IN IF found # {}
        THEN \E i \in found : EnsureReturns(c, periodKey, withId(snapshots, i), FALSE)
        ELSE /\ pc' = [pc EXCEPT ![c] = "ensureAdd"]
             /\ op' = [op EXCEPT ![c].periodKey = periodKey]
             /\ UNCHANGED <<users, memSnap, loading>>
  /\ UNCHANGED <<usersCol, snapshots, inflight, now, failures, addsLeft>>

\* ensureSnapshot lines 98-116: build the snapshot from currentStats, addDoc it,
\* return it with the new id.
EnsureAddDoc(c) ==
  /\ pc[c] = "ensureAdd"
  /\ MayMove(c)
  /\ UNCHANGED <<serial, jobsCol, allJobs, jobOpsLeft, lastCall, progVars, fetchVars, rankVars, keyVars, viewVars, passVars>>
  /\ LET period == PeriodOrder[op[c].period]
         newSnapshot == [period |-> period, periodKey |-> op[c].periodKey,
                         createdAt |-> now, users |-> snapshotUsers(op[c].cur)]
     IN /\ snapshots' = Append(snapshots, newSnapshot)
        /\ EnsureReturns(c, op[c].periodKey, withId(snapshots', Len(snapshots')), TRUE)
  /\ UNCHANGED <<usersCol, inflight, now, failures, addsLeft>>

\* ensureSnapshot lines 118-121: getDocs or addDoc throws; null is returned.
EnsureFails(c) ==
  /\ pc[c] \in {"ensure", "ensureAdd"}
  /\ MayMove(c)
  /\ UNCHANGED <<serial, jobsCol, allJobs, jobOpsLeft, lastCall, progVars, fetchVars, rankVars, keyVars, viewVars, passVars>>
  /\ CanFail
  /\ failures' = failures + 1
  /\ EnsureReturns(c, IF pc[c] = "ensure" THEN getPeriodKey(PeriodOrder[op[c].period], now)
                      ELSE op[c].periodKey, NULL, FALSE)
  /\ UNCHANGED <<usersCol, snapshots, inflight, now, addsLeft>>

\* loadAllJobs lines 126-148, the last await of loadAllData and of addJob:
\* the jobs collection is read and published; a failed read is logged and
\* allJobs stays as it was.
LoadAllJobs(c) ==
  /\ pc[c] = "loadJobs"
  /\ MayMove(c)
  /\ UNCHANGED <<serial, jobsCol, jobOpsLeft, lastCall, progVars, fetchVars, rankVars, keyVars, viewVars, passVars>>
  /\ \/ /\ allJobs' = [allJobs EXCEPT ![c] = jobsList(jobsCol)]
        /\ UNCHANGED failures
     \/ /\ CanFail
        /\ failures' = failures + 1
        /\ UNCHANGED allJobs
  /\ pc' = [pc EXCEPT ![c] = "idle"]
  /\ op' = [op EXCEPT ![c] = IdleOp]
  /\ UNCHANGED <<usersCol, snapshots, inflight, now, addsLeft, users, memSnap, loading>>

\* A plausible slip: the inputs are validated as typed.
trimKeepsBlanks(s) == s

\* String.prototype.trim, on the inputs the model draws: a blank input
\* becomes empty, a padded one loses its padding.
trim(s) ==
  CASE s = " " -> ""
    [] s = " alice " -> "alice"
    [] s = " N " -> "N"
    [] s = " t " -> "t"
    [] OTHER -> s

\* What a handler call has done by its first await: whether a stats fetch
\* was issued, and what it returned ("pending" while it has not returned).
Calls == [fetched : BOOLEAN, returned : {"false", "pending"}]

\* A plausible slip: the result of the fetch is used without looking at its
\* error.
addUserIgnoresError(c, newUsername, newName, call) ==
  LET trimmedUsername == trim(newUsername)
      trimmedName == trim(newName)
  IN IF trimmedUsername = "" \/ trimmedName = ""
        \/ \E i \in 1..Len(users[c]) : users[c][i].username = trimmedUsername
     THEN /\ call = [fetched |-> FALSE, returned |-> "false"]
          /\ UNCHANGED <<pc, op, loading, addsLeft>>
     ELSE /\ addsLeft' = addsLeft - 1
          /\ \E outcome \in FetchOutcomes(trimmedUsername, now) :
               /\ call = [fetched |-> TRUE, returned |-> "pending"]
               /\ loading' = [loading EXCEPT ![c] = TRUE]
               /\ pc' = [pc EXCEPT ![c] = "addUserDoc"]
               /\ op' = [op EXCEPT ![c] = [IdleOp EXCEPT !.kind = "addUser",
                                             !.username = trimmedUsername,
                                             !.name = trimmedName,
                                             !.stats = fetchUserStats(trimmedUsername, 0,
                                                                      outcome)]]

\* addUser lines 412-438: the inputs are trimmed; an empty one, or a
\* username of the locally loaded roster, ends the call with false.
\* Otherwise fetchUserStats(trimmedUsername) runs with the default
\* jobsApplied = 0, and a failed fetch ends the call.
addUser(c, newUsername, newName, call) ==
  LET trimmedUsername == trim(newUsername)
      trimmedName == trim(newName)
  IN IF trimmedUsername = "" \/ trimmedName = ""
     THEN /\ call = [fetched |-> FALSE, returned |-> "false"]
          /\ UNCHANGED <<pc, op, loading, addsLeft>>
     ELSE IF \E i \in 1..Len(users[c]) : users[c][i].username = trimmedUsername
     THEN /\ call = [fetched |-> FALSE, returned |-> "false"]
          /\ UNCHANGED <<pc, op, loading, addsLeft>>
     ELSE /\ addsLeft' = addsLeft - 1
          /\ \E outcome \in FetchOutcomes(trimmedUsername, now) :
               LET userCurrentStats == fetchUserStats(trimmedUsername, 0, outcome)
               IN IF userCurrentStats.error # NoError
                  THEN /\ call = [fetched |-> TRUE, returned |-> "false"]
                       /\ loading' = [loading EXCEPT ![c] = FALSE]
                       /\ UNCHANGED <<pc, op>>
                  ELSE /\ call = [fetched |-> TRUE, returned |-> "pending"]
                       /\ loading' = [loading EXCEPT ![c] = TRUE]
                       /\ pc' = [pc EXCEPT ![c] = "addUserDoc"]
                       /\ op' = [op EXCEPT ![c] = [IdleOp EXCEPT !.kind = "addUser",
                                                     !.username = trimmedUsername,
                                                     !.name = trimmedName,
                                                     !.stats = userCurrentStats]]

\* One addUser call, up to its first database request.
AddUser(c, newUsername, newName) ==
  /\ pc[c] = "idle"
  /\ MayMove(c)
  /\ addsLeft > 0
  /\ UNCHANGED <<serial, jobsCol, allJobs, jobOpsLeft, lastCall, progVars, fetchVars, rankVars, keyVars, viewVars, passVars>>
  /\ \E call \in Calls : addUser(c, newUsername, newName, call)
  /\ UNCHANGED <<usersCol, snapshots, inflight, now, failures, users, memSnap>>

\* addUser lines 440-447: addDoc(collection(db, 'users'), newUser); a failure
\* is caught at line 474.
AddUserDoc(c) ==
  /\ pc[c] = "addUserDoc"
  /\ MayMove(c)
  /\ UNCHANGED <<serial, jobsCol, allJobs, jobOpsLeft, lastCall, progVars, fetchVars, rankVars, keyVars, viewVars, passVars>>
  /\ \/ /\ usersCol' = Append(usersCol, [username |-> op[c].username, name |-> op[c].name,
                                         jobsApplied |-> 0])
        /\ pc' = [pc EXCEPT ![c] = "reloadUsers"]
        /\ UNCHANGED <<failures, loading, op>>
     \/ /\ CanFail
        /\ failures' = failures + 1
        /\ loading' = [loading EXCEPT ![c] = FALSE]
        /\ pc' = [pc EXCEPT ![c] = "idle"]
        /\ op' = [op EXCEPT ![c] = IdleOp]
        /\ UNCHANGED usersCol
  /\ UNCHANGED <<snapshots, inflight, now, addsLeft, users, memSnap>>

\* addUser line 454: updatedUsers = await loadUsersFromFirestore().
ReloadUsers(c) ==
  /\ pc[c] = "reloadUsers"
  /\ MayMove(c)
  /\ UNCHANGED <<serial, jobsCol, allJobs, jobOpsLeft, lastCall, progVars, fetchVars, rankVars, keyVars, viewVars, passVars>>
  /\ \/ /\ users' = [users EXCEPT ![c] = userList(usersCol)]
        /\ op' = [op EXCEPT ![c].roster = userList(usersCol)]
        /\ UNCHANGED failures
     \/ /\ CanFail
        /\ failures' = failures + 1
        /\ op' = [op EXCEPT ![c].roster = <<>>]
        /\ UNCHANGED users
  /\ pc' = [pc EXCEPT ![c] = "patch"]
  /\ UNCHANGED <<usersCol, snapshots, inflight, now, addsLeft, memSnap, loading>>

\* addUserToCurrentSnapshots lines 497-499.
isCurrent(data, keys) ==
  \/ data.period = "weekly" /\ data.periodKey = keys.weekly
  \/ data.period = "monthly" /\ data.periodKey = keys.monthly
  \/ data.period = "yearly" /\ data.periodKey = keys.yearly

hasUser(data, username) == \E k \in 1..Len(data.users) : data.users[k].username = username

\* addUserToCurrentSnapshots lines 502-511.
newUserSnapshot(username, name, stats) ==
  [username |-> username, name |-> name, jobsApplied |-> stats.jobsApplied,
   easy |-> stats.easy, medium |-> stats.medium, hard |-> stats.hard,
   total |-> stats.total, xp |-> stats.xp]

\* A plausible slip: the patch is applied to the weekly snapshot only.
patchTargetsWeeklyOnly(col, keys, username) ==
  {i \in 1..Len(col) : col[i].period = "weekly" /\ col[i].periodKey = keys.weekly
                       /\ ~hasUser(col[i], username)}

\* A plausible slip: every snapshot without the username is patched,
\* whatever its period key.
patchTargetsAnyKey(col, keys, username) ==
  {i \in 1..Len(col) : ~hasUser(col[i], username)}

\* The documents the patch writes: current, and without the username.
patchTargets(col, keys, username) ==
  {i \in 1..Len(col) : isCurrent(col[i], keys) /\ ~hasUser(col[i], username)}

currentKeys(date) ==
  [weekly |-> getWeeklyPeriodKey(date), monthly |-> getMonthlyPeriodKey(date),
   yearly |-> getYearlyPeriodKey(date)]

\* addUserToCurrentSnapshots lines 486-517: the keys, getDocs of the whole
\* collection, and one updateDoc per document to patch, all issued before
\* any of them is awaited (Promise.all); each carries the users array as
\* read plus the new entry.
PatchRead(c) ==
  /\ pc[c] = "patch"
  /\ MayMove(c)
  /\ OwnWritesVisible(c)
  /\ UNCHANGED <<serial, jobsCol, allJobs, jobOpsLeft, lastCall, progVars, fetchVars, rankVars, keyVars, viewVars, passVars>>
  /\ \/ LET keys == currentKeys(now)
            targets == patchTargets(snapshots, keys, op[c].username)
            entry == newUserSnapshot(op[c].username, op[c].name, op[c].stats)
        IN /\ inflight' = inflight \cup
                            {[client |-> c, id |-> i, users |-> Append(snapshots[i].users, entry)] :
                               i \in targets}
           /\ pc' = [pc EXCEPT ![c] = IF targets = {} THEN "sync" ELSE "patchWait"]
           /\ op' = [op EXCEPT ![c].patchRead = snapshots, ![c].patchKeys = keys]
           /\ UNCHANGED failures
     \/ \* getDocs throws: caught at line 518
        /\ CanFail
        /\ failures' = failures + 1
        /\ pc' = [pc EXCEPT ![c] = "sync"]
        /\ op' = [op EXCEPT ![c].patchErr = TRUE]
        /\ UNCHANGED inflight
  /\ UNCHANGED <<usersCol, snapshots, now, addsLeft, users, memSnap, loading>>

othersInFlight(w) == {v \in inflight : v.client = w.client /\ v # w}

\* One updateDoc of a patch reaches the database: the document's users
\* field is replaced.  Promise.all resolves with the last of them.
UpdateDocLands(w) ==
  /\ w \in inflight
  /\ MayMove(w.client)
  /\ UNCHANGED <<serial, jobsCol, allJobs, jobOpsLeft, lastCall, progVars, fetchVars, rankVars, keyVars, viewVars, passVars>>
  /\ inflight' = inflight \ {w}
  /\ snapshots' = [snapshots EXCEPT ![w.id].users = w.users]
  /\ pc' = IF pc[w.client] = "patchWait" /\ othersInFlight(w) = {}
           THEN [pc EXCEPT ![w.client] = "sync"] ELSE pc
  /\ UNCHANGED <<usersCol, now, failures, addsLeft, users, memSnap, loading, op>>

\* One updateDoc of a patch fails: Promise.all rejects at once (caught at
\* line 518) while the other writes stay in flight.
UpdateDocFails(w) ==
  /\ w \in inflight
  /\ MayMove(w.client)
  /\ UNCHANGED <<serial, jobsCol, allJobs, jobOpsLeft, lastCall, progVars, fetchVars, rankVars, keyVars, viewVars, passVars>>
  /\ CanFail
  /\ failures' = failures + 1
  /\ inflight' = inflight \ {w}
  /\ IF pc[w.client] = "patchWait"
     THEN /\ pc' = [pc EXCEPT ![w.client] = "sync"]
          /\ op' = [op EXCEPT ![w.client].patchErr = TRUE]
     ELSE UNCHANGED <<pc, op>>
  /\ UNCHANGED <<usersCol, snapshots, now, addsLeft, users, memSnap, loading>>

(***************************************************************************)
(* The job log: addJob, deleteJob, updateJobStatus                         *)
(***************************************************************************)

\* Job documents ever created.
MaxJobs == 2

\* Job operations started, over all clients.
MaxJobOps == 4

STATUS_SEQUENCE == <<"Applied", "Assessment", "Interview", "Offer">>

\* STATUS_SEQUENCE.indexOf(current), 0-based, -1 when absent.
indexOf(seq, x) ==
  IF \E k \in 1..Len(seq) : seq[k] = x
  THEN (CHOOSE k \in 1..Len(seq) : seq[k] = x /\ \A j \in 1..(k - 1) : seq[j] # x) - 1
  ELSE -1

getNextStatus(current) ==
  LET idx == indexOf(STATUS_SEQUENCE, current)
  IN IF idx = -1 THEN "Applied"
     ELSE STATUS_SEQUENCE[((idx + 1) % Len(STATUS_SEQUENCE)) + 1]

\* users.find(u => u.username === username): the first match, or NULL.
findUser(roster, username) ==
  LET found == {i \in 1..Len(roster) : roster[i].username = username}
  IN IF found = {} THEN NULL
     ELSE roster[CHOOSE i \in found : \A j \in found : i <= j]

\* allJobs.find(job => job.id === jobId)
findJob(jobs, jobId) ==
  LET found == {i \in 1..Len(jobs) : jobs[i].id = jobId}
  IN IF found = {} THEN NULL
     ELSE jobs[CHOOSE i \in found : \A j \in found : i <= j]

\* addJob lines 305-320: the form fields are trimmed; a missing field, or a
\* selected username that the locally loaded roster does not hold, ends the
\* call with false.  Otherwise loading is set and the job document is about
\* to be written.
addJob(c, selectedJobUsername, jobTitle, jobCompany, jobUrl, call) ==
  LET trimmedUrl == trim(jobUrl)
      trimmedTitle == trim(jobTitle)
      trimmedCompany == trim(jobCompany)
      userToUpdate == findUser(users[c], selectedJobUsername)
  IN IF selectedJobUsername = "" \/ trimmedUrl = "" \/ trimmedTitle = "" \/ trimmedCompany = ""
     THEN /\ call = [fetched |-> FALSE, returned |-> "false"]
          /\ UNCHANGED <<pc, op, loading, jobOpsLeft>>
     ELSE IF userToUpdate = NULL
     THEN /\ call = [fetched |-> FALSE, returned |-> "false"]
          /\ UNCHANGED <<pc, op, loading, jobOpsLeft>>
     ELSE /\ call = [fetched |-> FALSE, returned |-> "pending"]
          /\ jobOpsLeft' = jobOpsLeft - 1
          /\ loading' = [loading EXCEPT ![c] = TRUE]
          /\ pc' = [pc EXCEPT ![c] = "addJobDoc"]
          /\ op' = [op EXCEPT ![c] = [IdleOp EXCEPT !.kind = "addJob",
                                        !.username = selectedJobUsername,
                                        !.userToUpdate = userToUpdate]]

\* One addJob call, up to its first database request.
AddJob(c, selectedJobUsername, jobTitle, jobCompany, jobUrl) ==
  /\ pc[c] = "idle"
  /\ MayMove(c)
  /\ jobOpsLeft > 0
  /\ Len(jobsCol) < MaxJobs
  /\ UNCHANGED <<serial, jobsCol, allJobs, lastCall, progVars, fetchVars, rankVars, keyVars, viewVars, passVars>>
  /\ \E call \in Calls : addJob(c, selectedJobUsername, jobTitle, jobCompany, jobUrl, call)
  /\ UNCHANGED <<usersCol, snapshots, inflight, now, failures, addsLeft, users, memSnap>>

\* A plausible slip: the catch block ends the call and leaves loading set.
JobCallFailsStillLoading(c) ==
  /\ CanFail
  /\ failures' = failures + 1
  /\ loading' = loading
  /\ pc' = [pc EXCEPT ![c] = "idle"]
  /\ op' = [op EXCEPT ![c] = IdleOp]

\* The catch block of addJob (lines 347-352) and the catch and finally
\* blocks of deleteJob (lines 387-392): loading is reset, the call ends.
JobCallFails(c) ==
  /\ CanFail
  /\ failures' = failures + 1
  /\ loading' = [loading EXCEPT ![c] = FALSE]
  /\ pc' = [pc EXCEPT ![c] = "idle"]
  /\ op' = [op EXCEPT ![c] = IdleOp]

\* addJob lines 323-330: addDoc(collection(db, 'jobs'), {..., status: 'Applied'}).
AddJobDoc(c) ==
  /\ pc[c] = "addJobDoc"
  /\ MayMove(c)
  /\ UNCHANGED <<serial, allJobs, jobOpsLeft, lastCall, progVars, fetchVars, rankVars, keyVars, viewVars, passVars>>
  /\ \/ /\ jobsCol' = Append(jobsCol, [username |-> op[c].username, status |-> "Applied",
                                       createdAt |-> now, exists |-> TRUE])
        /\ pc' = [pc EXCEPT ![c] = "addJobCount"]
        /\ UNCHANGED <<failures, loading, op>>
     \/ /\ JobCallFails(c)
        /\ UNCHANGED jobsCol
  /\ UNCHANGED <<usersCol, snapshots, inflight, now, addsLeft, users, memSnap>>

\* addJob lines 333-335: the counter is written from the roster entry the
\* call started with: jobsApplied: (userToUpdate.jobsApplied || 0) + 1.
AddJobCount(c) ==
  /\ pc[c] = "addJobCount"
  /\ MayMove(c)
  /\ UNCHANGED <<serial, jobsCol, allJobs, jobOpsLeft, lastCall, progVars, fetchVars, rankVars, keyVars, viewVars, passVars>>
  /\ \/ LET currentJobs == op[c].userToUpdate.jobsApplied
        IN /\ usersCol' = [usersCol EXCEPT ![op[c].userToUpdate.id].jobsApplied =
                                             currentJobs + 1]
           /\ pc' = [pc EXCEPT ![c] = "jobReload"]
           /\ UNCHANGED <<failures, loading, op>>
     \/ /\ JobCallFails(c)
        /\ UNCHANGED usersCol
  /\ UNCHANGED <<snapshots, inflight, now, addsLeft, users, memSnap>>

\* deleteJob lines 356-369, after the confirmation: loading is set, the job
\* is looked up in the local allJobs and its owner in the local roster.
\* The list shows the local jobs only, so jobId is one of them.
DeleteJob(c, jobId) ==
  /\ pc[c] = "idle"
  /\ MayMove(c)
  /\ jobOpsLeft > 0
  /\ UNCHANGED <<serial, jobsCol, allJobs, lastCall, progVars, fetchVars, rankVars, keyVars, viewVars, passVars>>
  /\ findJob(allJobs[c], jobId) # NULL
  /\ LET jobToDelete == findJob(allJobs[c], jobId)
         userToUpdate == findUser(users[c], jobToDelete.username)
     IN op' = [op EXCEPT ![c] = [IdleOp EXCEPT !.kind = "deleteJob", !.jobId = jobId,
                                   !.userToUpdate = userToUpdate]]
  /\ jobOpsLeft' = jobOpsLeft - 1
  /\ loading' = [loading EXCEPT ![c] = TRUE]
  /\ pc' = [pc EXCEPT ![c] = "deleteJobDoc"]
  /\ UNCHANGED <<usersCol, snapshots, inflight, now, failures, addsLeft, users, memSnap>>

\* deleteJob line 382: setAllJobs(prevJobs => prevJobs.filter(job => job.id !== jobId))
withoutJob(jobs, jobId) == SelectSeq(jobs, LAMBDA job : job.id # jobId)

\* deleteJob line 372: deleteDoc(doc(db, 'jobs', jobId)); deleting a
\* document that is gone succeeds.  Without an owner in the local roster no
\* counter is written and the local list is filtered at once.
DeleteJobDoc(c) ==
  /\ pc[c] = "deleteJobDoc"
  /\ MayMove(c)
  /\ UNCHANGED <<serial, jobOpsLeft, lastCall, progVars, fetchVars, rankVars, keyVars, viewVars, passVars>>
  /\ \/ /\ jobsCol' = [jobsCol EXCEPT ![op[c].jobId].exists = FALSE]
        /\ IF op[c].userToUpdate # NULL
           THEN /\ pc' = [pc EXCEPT ![c] = "deleteJobCount"]
                /\ UNCHANGED allJobs
           ELSE /\ pc' = [pc EXCEPT ![c] = "jobReload"]
                /\ allJobs' = [allJobs EXCEPT ![c] = withoutJob(allJobs[c], op[c].jobId)]
        /\ UNCHANGED <<failures, loading, op>>
     \/ /\ JobCallFails(c)
        /\ UNCHANGED <<jobsCol, allJobs>>
  /\ UNCHANGED <<usersCol, snapshots, inflight, now, addsLeft, users, memSnap>>

\* A plausible slip: the counter is decremented without the floor.
decrementedNoFloor(currentJobs) == currentJobs - 1

\* deleteJob line 378: Math.max(0, currentJobs - 1).
decremented(currentJobs) == IF currentJobs - 1 > 0 THEN currentJobs - 1 ELSE 0

\* deleteJob lines 375-382: the counter is written from the roster entry the
\* call started with, then the job leaves the local list.
DeleteJobCount(c) ==
  /\ pc[c] = "deleteJobCount"
  /\ MayMove(c)
  /\ UNCHANGED <<serial, jobsCol, jobOpsLeft, lastCall, progVars, fetchVars, rankVars, keyVars, viewVars, passVars>>
  /\ \/ LET currentJobs == op[c].userToUpdate.jobsApplied
        IN /\ usersCol' = [usersCol EXCEPT ![op[c].userToUpdate.id].jobsApplied =
                                             decremented(currentJobs)]
           /\ allJobs' = [allJobs EXCEPT ![c] = withoutJob(allJobs[c], op[c].jobId)]
           /\ pc' = [pc EXCEPT ![c] = "jobReload"]
           /\ UNCHANGED <<failures, loading, op>>
     \/ /\ JobCallFails(c)
        /\ UNCHANGED <<usersCol, allJobs>>
  /\ UNCHANGED <<snapshots, inflight, now, addsLeft, users, memSnap>>

\* addJob line 343, deleteJob line 385: updatedUsers = await
\* loadUsersFromFirestore(), which publishes the roster it read; when the
\* read fails it returns [] and loadAllStats publishes that (line 581).
JobReloadUsers(c) ==
  /\ pc[c] = "jobReload"
  /\ MayMove(c)
  /\ UNCHANGED <<serial, jobsCol, allJobs, jobOpsLeft, lastCall, progVars, fetchVars, rankVars, keyVars, viewVars, passVars>>
  /\ \/ /\ users' = [users EXCEPT ![c] = userList(usersCol)]
        /\ op' = [op EXCEPT ![c].roster = userList(usersCol)]
        /\ UNCHANGED failures
     \/ /\ CanFail
        /\ failures' = failures + 1
        /\ users' = [users EXCEPT ![c] = <<>>]
        /\ op' = [op EXCEPT ![c].roster = <<>>]
  /\ pc' = [pc EXCEPT ![c] = "jobStats"]
  /\ UNCHANGED <<usersCol, snapshots, inflight, now, addsLeft, memSnap, loading>>

\* An argument that was not passed.
UNDEFINED == [undefined |-> TRUE]

\* loadAllStats lines 592-594: snap !== undefined ? snap : the snapshot held
\* in React state.
baselineFor(snap, held) == IF snap # UNDEFINED THEN snap ELSE held

\* addJob line 344, deleteJob line 386: loadAllStats(updatedUsers) fetches
\* the stats of the roster and resets loading (line 663); addJob goes on to
\* loadAllJobs, deleteJob is done.
JobStats(c) ==
  /\ pc[c] = "jobStats"
  /\ MayMove(c)
  /\ UNCHANGED <<serial, jobsCol, allJobs, jobOpsLeft, lastCall, progVars, fetchVars, rankVars, keyVars, viewVars, passVars>>
  /\ loading' = [loading EXCEPT ![c] = FALSE]
  /\ IF op[c].kind = "addJob"
     THEN /\ pc' = [pc EXCEPT ![c] = "loadJobs"]
          /\ UNCHANGED op
     ELSE /\ pc' = [pc EXCEPT ![c] = "idle"]
          /\ op' = [op EXCEPT ![c] = IdleOp]
  /\ UNCHANGED <<usersCol, snapshots, inflight, now, failures, addsLeft, users, memSnap>>

\* updateJobStatus(job.id, getNextStatus(job.status)), line 1073 and lines
\* 396-409: the next status is computed from the job as the local list shows
\* it; updateDoc writes it, then the local list follows.  updateDoc on a
\* document that is gone, or a failed write, is caught: nothing changes.
UpdateJobStatus(c, jobId) ==
  /\ pc[c] = "idle"
  /\ MayMove(c)
  /\ jobOpsLeft > 0
  /\ UNCHANGED <<serial, lastCall, progVars, fetchVars, rankVars, keyVars, viewVars, passVars>>
  /\ findJob(allJobs[c], jobId) # NULL
  /\ jobOpsLeft' = jobOpsLeft - 1
  /\ LET newStatus == getNextStatus(findJob(allJobs[c], jobId).status)
     IN \/ /\ jobsCol[jobId].exists
           /\ jobsCol' = [jobsCol EXCEPT ![jobId].status = newStatus]
           /\ allJobs' = [allJobs EXCEPT ![c] =
                            [k \in 1..Len(allJobs[c]) |->
                               IF allJobs[c][k].id = jobId
                               THEN [allJobs[c][k] EXCEPT !.status = newStatus]
                               ELSE allJobs[c][k]]]
           /\ UNCHANGED failures
        \/ /\ ~jobsCol[jobId].exists
           /\ UNCHANGED <<jobsCol, allJobs, failures>>
        \/ /\ CanFail
           /\ failures' = failures + 1
           /\ UNCHANGED <<jobsCol, allJobs>>
  /\ UNCHANGED <<usersCol, snapshots, inflight, now, addsLeft, pc, users, memSnap, loading, op>>

(***************************************************************************)
(* SpecPrev: handleViewPreviousLeaderboard of one App                      *)
(***************************************************************************)

\* The App whose modal is modelled.
ViewClient == "c1"

\* useState defaults, lines 76-80.
ClosedView ==
  [showLeaderboardModal |-> FALSE, leaderboardModalType |-> NULL,
   prevLeaderboardStats |-> <<>>, loadingPrevStats |-> FALSE, prevDataMissing |-> FALSE]

InitViewVars ==
  /\ view = ClosedView
  /\ viewOp = NULL

\* handleViewPreviousLeaderboard lines 729-762, up to the awaited
\* loadSnapshotByKey: the modal is opened and cleared, the end snapshot is
\* the in-memory snapshot of the period, prevKey is computed from new Date().
HandleViewPrevious(period) ==
  /\ viewOp = NULL
  /\ keyIn # NULL
  /\ view' = [showLeaderboardModal |-> TRUE, leaderboardModalType |-> period,
              prevLeaderboardStats |-> <<>>, loadingPrevStats |-> TRUE,
              prevDataMissing |-> FALSE]
  /\ viewOp' = [period |-> period, endSnap |-> memSnap[ViewClient][period],
                prevKey |-> prevKey(period, keyIn.instant, keyIn.tz)]
  /\ UNCHANGED <<engineVars, progVars, fetchVars, rankVars, keyVars, passVars>>

\* A plausible slip: without an end snapshot the modal is left as it is.
viewAfterLoadSilent(v, startSnap, endSnap) ==
  IF startSnap = NULL
  THEN [v EXCEPT !.prevDataMissing = TRUE, !.prevLeaderboardStats = <<>>,
                 !.loadingPrevStats = FALSE]
  ELSE IF endSnap # NULL
  THEN [v EXCEPT !.prevLeaderboardStats = computePrevStats(endSnap, startSnap),
                 !.loadingPrevStats = FALSE]
  ELSE [v EXCEPT !.loadingPrevStats = FALSE]

\* handleViewPreviousLeaderboard lines 764-785, after loadSnapshotByKey
\* returned startSnap.
viewAfterLoad(v, startSnap, endSnap) ==
  IF startSnap = NULL
  THEN [v EXCEPT !.prevDataMissing = TRUE, !.prevLeaderboardStats = <<>>,
                 !.loadingPrevStats = FALSE]
  ELSE IF endSnap # NULL
  THEN [v EXCEPT !.prevLeaderboardStats = computePrevStats(endSnap, startSnap),
                 !.loadingPrevStats = FALSE]
  ELSE [v EXCEPT !.prevDataMissing = TRUE, !.prevLeaderboardStats = <<>>,
                 !.loadingPrevStats = FALSE]

\* loadSnapshotByKey(period, prevKey), firebase.ts lines 158-177: the query
\* with limit(1) returns a matching document with its id, or null; a
\* failed query is caught and null is returned.  The handler then sets the
\* modal state.
LoadSnapshotByKey ==
  /\ viewOp # NULL
  /\ LET found == matchingDocs(snapshots, viewOp.period, viewOp.prevKey)
     IN \/ /\ found # {}
           /\ \E i \in found : view' = viewAfterLoad(view, withId(snapshots, i), viewOp.endSnap)
           /\ UNCHANGED failures
        \/ /\ found = {}
           /\ view' = viewAfterLoad(view, NULL, viewOp.endSnap)
           /\ UNCHANGED failures
        \/ /\ CanFail
           /\ failures' = failures + 1
           /\ view' = viewAfterLoad(view, NULL, viewOp.endSnap)
  /\ viewOp' = NULL
  /\ UNCHANGED <<usersCol, snapshots, inflight, jobsCol, now, addsLeft, pc, users, memSnap,
                 loading, op, allJobs, jobOpsLeft, lastCall, serial>>
  /\ UNCHANGED <<progVars, fetchVars, rankVars, keyVars, passVars>>

\* The instants at which the modal is opened: a Sunday afternoon and, 128
\* hours later, a Saturday in the reference zone.
ViewInstants == {FirstInstant + 72, FirstInstant + 200}

\* A user entry of the snapshots drawn.
ViewEntry(easy) == snapshotEntry("alice", 0, easy, 0, 0, easy)

\* The start snapshot of the previous period as the App stored it one
\* period earlier, under the key of the reference zone.
StartSnapshot(period, instant) ==
  snapshotDoc(period, prevKey(period, instant, TIMEZONE), 0, <<ViewEntry(1)>>)

\* The snapshot the App holds for a period since its last loadAllData at
\* the given instant.
HeldSnapshot(period, instant) ==
  [id |-> 0, period |-> period, periodKey |-> currentKeyNow(period, instant, TIMEZONE),
   createdAt |-> 0, users |-> <<ViewEntry(2)>>]

\* The stored collections drawn: each start snapshot is there or not.
DrawnCollections(instant) ==
  {(IF "weekly" \in have THEN <<StartSnapshot("weekly", instant)>> ELSE <<>>)
     \o (IF "monthly" \in have THEN <<StartSnapshot("monthly", instant)>> ELSE <<>>)
     \o (IF "yearly" \in have THEN <<StartSnapshot("yearly", instant)>> ELSE <<>>) :
     have \in SUBSET Periods}

NextPrev ==
  \/ \E period \in Periods : HandleViewPrevious(period)
  \/ LoadSnapshotByKey

(***************************************************************************)
(* SpecBatch: the batch loop of one stats-loading pass                     *)
(***************************************************************************)

MaxPassRoster == 7

\* The loops that fetch the roster in batches.
BatchLoops == {"loadAllData", "loadAllStats"}

NoPass == [loop |-> "none", n |-> 0, i |-> 0, stage |-> "done", started |-> {},
           returned |-> {}, attempt |-> <<>>, pushed |-> 0]

InitPassVars == pass = NoPass

(***************************************************************************)
(* SpecFetch: the request loop of one fetchUserStats call                  *)
(***************************************************************************)

maxRetries == 3

\* What one fetch(url) ends with: a network failure (fetch rejects), or a
\* response with an HTTP status and a body.  Bodies: the success payload,
\* { status: 'error', message: 'user does not exist' }, a payload with any
\* other status, or text that is not JSON.
Statuses == {200, 404, 500}

Bodies == {"success", "notexist", "error", "invalid"}

Responses ==
  {[kind |-> "network"]} \cup
  {[kind |-> "response", status |-> st, body |-> b] : st \in Statuses, b \in Bodies}

\* response.ok
ok(resp) == resp.status >= 200 /\ resp.status <= 299

\* `HTTP error! status: ${response.status}`
httpErrorMessage(status) ==
  IF status = 404 THEN "HTTP error! status: 404"
  ELSE IF status = 500 THEN "HTTP error! status: 500"
  ELSE "HTTP error! status: 200"

\* A plausible slip: the failing paths still credit the jobs.
errorStatsWithJobsXp(username, jobsApplied, message) ==
  [username |-> username, jobsApplied |-> jobsApplied, easy |-> 0, medium |-> 0,
   hard |-> 0, total |-> 0, xp |-> jobsApplied, rank |-> 0, error |-> message]

\* The result every failing path returns: the caller's jobsApplied, zero
\* counts and xp, and the error message.
errorStats(username, jobsApplied, message) ==
  [username |-> username, jobsApplied |-> jobsApplied, easy |-> 0, medium |-> 0,
   hard |-> 0, total |-> 0, xp |-> 0, rank |-> 0, error |-> message]

\* A plausible slip: a not-found answer is thrown and retried like a
\* transient failure.
tryBodyRetriesNotFound(attempt, resp) ==
  IF resp.kind = "network" THEN [way |-> "throw", message |-> "Failed to fetch"]
  ELSE IF ~ok(resp)
  THEN IF resp.status >= 500 /\ attempt < maxRetries THEN [way |-> "continue"]
       ELSE [way |-> "throw", message |-> httpErrorMessage(resp.status)]
  ELSE IF resp.body = "success" THEN [way |-> "return", message |-> NoError]
  ELSE [way |-> "throw", message |-> "User not found"]

\* The try block of one loop iteration (lines 158-242): `continue` with a
\* backoff, return (with an error message, or NoError for the stats), or
\* throw into the catch block.
tryBody(attempt, resp) ==
  IF resp.kind = "network" THEN [way |-> "throw", message |-> "Failed to fetch"]
  ELSE IF ~ok(resp)
  THEN IF resp.status >= 500 /\ attempt < maxRetries THEN [way |-> "continue"]
       ELSE IF resp.body = "notexist"
       THEN [way |-> "return", message |-> "this is not a leetcode user"]
       ELSE [way |-> "throw", message |-> httpErrorMessage(resp.status)]
  ELSE IF resp.body = "invalid"
  THEN [way |-> "throw", message |-> "Unexpected token < in JSON at position 0"]
  ELSE IF resp.body = "notexist"
  THEN [way |-> "return", message |-> "this is not a leetcode user"]
  ELSE IF resp.body = "error" THEN [way |-> "return", message |-> "User not found"]
  ELSE [way |-> "return", message |-> NoError]

\* A plausible slip: the jobs are left out of the xp.
successStatsNoJobs(username, jobsApplied, data) ==
  [username |-> username, jobsApplied |-> jobsApplied, easy |-> data.easySolved,
   medium |-> data.mediumSolved, hard |-> data.hardSolved, total |-> data.totalSolved,
   xp |-> 2 * data.easySolved + 4 * data.mediumSolved + 8 * data.hardSolved,
   rank |-> 0, error |-> NoError]

\* Lines 223-240: the stats of a successful answer.
successStats(username, jobsApplied, data) ==
  [username |-> username, jobsApplied |-> jobsApplied, easy |-> data.easySolved,
   medium |-> data.mediumSolved, hard |-> data.hardSolved, total |-> data.totalSolved,
   xp |-> jobsApplied + 2 * data.easySolved + 4 * data.mediumSolved + 8 * data.hardSolved,
   rank |-> 0, error |-> NoError]

\* 1000 * Math.pow(2, attempt - 1)
RECURSIVE pow2(_)
pow2(n) == IF n <= 0 THEN 1 ELSE 2 * pow2(n - 1)

backoff(attempt) == 1000 * pow2(attempt - 1)

\* The payloads drawn: solved counts up to MaxCount, and the counts of the
\* worked example (easy 3, medium 1, hard 0).
solvedPayload(e, m, h) ==
  [status |-> "success", easySolved |-> e, mediumSolved |-> m, hardSolved |-> h,
   totalSolved |-> e + m + h]

ScenarioPayload == solvedPayload(3, 1, 0)

DrawnPayloads == {solvedPayload(0, 0, 0), solvedPayload(MaxCount, 0, MaxCount), ScenarioPayload}

\* The caller's jobsApplied: none, or the 2 jobs of the worked example.
DrawnJobs == {0, 2}

InitFetchVars ==
  /\ fetchIn = NULL
  /\ fetchAttempt = 0
  /\ fetchPc = "done"
  /\ fetchLog = <<>>
  /\ fetchOut = NULL

\* One iteration of the while loop: the request, then the try block and,
\* on a throw, the catch block (lines 243-262).
FetchRequest(resp) ==
  /\ fetchPc = "request"
  /\ fetchAttempt <= maxRetries
  /\ fetchLog' = Append(fetchLog, [event |-> "request", attempt |-> fetchAttempt,
                                   response |-> resp])
  /\ LET t == tryBody(fetchAttempt, resp)
     IN CASE t.way = "continue" ->
               /\ fetchAttempt' = fetchAttempt + 1
               /\ fetchPc' = "backoff"
               /\ UNCHANGED fetchOut
          [] t.way = "return" ->
               /\ fetchOut' = IF t.message = NoError
                              THEN successStats(fetchIn.username, fetchIn.jobsApplied,
                                                fetchIn.payload)
                              ELSE errorStats(fetchIn.username, fetchIn.jobsApplied, t.message)
               /\ fetchPc' = "done"
               /\ UNCHANGED fetchAttempt
          [] t.way = "throw" /\ fetchAttempt >= maxRetries ->
               /\ fetchOut' = errorStats(fetchIn.username, fetchIn.jobsApplied, t.message)
               /\ fetchPc' = "done"
               /\ UNCHANGED fetchAttempt
          [] t.way = "throw" /\ fetchAttempt < maxRetries ->
               /\ fetchAttempt' = fetchAttempt + 1
               /\ fetchPc' = "backoff"
               /\ UNCHANGED fetchOut
  /\ UNCHANGED <<fetchIn, engineVars, progVars, rankVars, keyVars, viewVars, passVars>>

\* await new Promise(r => setTimeout(r, backoff)), then the next iteration.
FetchBackoff ==
  /\ fetchPc = "backoff"
  /\ fetchLog' = Append(fetchLog, [event |-> "wait", ms |-> backoff(fetchAttempt)])
  /\ fetchPc' = "request"
  /\ UNCHANGED <<fetchIn, fetchAttempt, fetchOut, engineVars, progVars, rankVars, keyVars, viewVars, passVars>>

NextFetch ==
  \/ \E resp \in Responses : FetchRequest(resp)
  \/ FetchBackoff

(***************************************************************************)
(* SpecRank: one loadAllStats pass on a drawn roster                       *)
(***************************************************************************)

\* The comparator of both sorts of loadAllStats:
\* (a, b) => b.xp === a.xp ? b.total - a.total : b.xp - a.xp.
compareStats(a, b) == IF b.xp = a.xp THEN b.total - a.total ELSE b.xp - a.xp

\* Array.prototype.sort is stable: x goes behind every element that does
\* not sort after it.
RECURSIVE insertStat(_, _)
insertStat(x, s) ==
  IF s = <<>> THEN <<x>>
  ELSE IF compareStats(x, Head(s)) < 0 THEN <<x>> \o s
       ELSE <<Head(s)>> \o insertStat(x, Tail(s))

\* A plausible slip: the tie on xp is not broken by total.
sortStatsXpOnly(items) == sortByXp(items)

RECURSIVE sortStats(_)
sortStats(items) ==
  IF items = <<>> THEN <<>>
  ELSE insertStat(items[Len(items)], sortStats(SubSeq(items, 1, Len(items) - 1)))

\* sortAndRank(items), and the sort and map of the all-time list.
sortAndRank(items) == withRanks(sortStats(items))

\* A plausible slip: the users whose fetch failed are left out.
fetchAllDropFailed(usersToFetch, outcomes) ==
  SelectSeq([idx \in 1..Len(usersToFetch) |->
               withName(fetchUserStats(usersToFetch[idx].username, usersToFetch[idx].jobsApplied,
                                       outcomes[idx]),
                        usersToFetch[idx].name)],
            LAMBDA st : st.error = NoError)

\* Lines 601-622: fetchUserStats for every user (in batches, awaited in
\* order), then the names by index.
fetchAll(usersToFetch, outcomes) ==
  [idx \in 1..Len(usersToFetch) |->
     withName(fetchUserStats(usersToFetch[idx].username, usersToFetch[idx].jobsApplied,
                             outcomes[idx]),
              usersToFetch[idx].name)]

progressList(rankedStats, snapshot) ==
  [i \in 1..Len(rankedStats) |->
     computeProgress(rankedStats[i], findSnapshotUser(snapshot, rankedStats[i].username))]

\* loadAllStats(usersToFetch, weeklySnap, monthlySnap, yearlySnap): the four
\* lists it sets, and loading reset in the finally block.
loadAllStats(usersToFetch, snaps, outcomes) ==
  IF Len(usersToFetch) = 0
  THEN [userStats |-> <<>>, weeklyStats |-> <<>>, monthlyStats |-> <<>>,
        yearlyStats |-> <<>>, loading |-> FALSE]
  ELSE LET rankedStats == sortAndRank(fetchAll(usersToFetch, outcomes))
       IN [userStats |-> rankedStats,
           weeklyStats |-> sortAndRank(progressList(rankedStats, snaps.weekly)),
           monthlyStats |-> sortAndRank(progressList(rankedStats, snaps.monthly)),
           yearlyStats |-> sortAndRank(progressList(rankedStats, snaps.yearly)),
           loading |-> FALSE]

\* The rosters drawn: up to three distinct usernames in any order, each
\* with 0 or 1 jobs.
RosterNames == {"alice", "bob", "carol"}

MaxRoster == 3

DrawnRosters ==
  UNION {{r \in [1..n -> [username : RosterNames, name : Names, jobsApplied : 0..1]] :
            \A i, j \in 1..n : r[i].username = r[j].username => i = j} : n \in 0..MaxRoster}

\* The fetch outcomes drawn: an error, nothing solved, two easy problems
\* (xp 2, total 2) or one medium problem (xp 2, total 1).
DrawnOutcomes ==
  {[status |-> "error"], solvedPayload(0, 0, 0), solvedPayload(2, 0, 0), solvedPayload(0, 1, 0)}

BaselineA == snapshotEntry("alice", 0, 0, 0, 0, 0)

BaselineB == snapshotEntry("bob", 1, 1, 0, 0, 1)

DrawnWeekly ==
  {NULL, snapshotDoc("weekly", <<2026, 1>>, 0, <<>>),
   snapshotDoc("weekly", <<2026, 1>>, 0, <<BaselineA, BaselineB>>)}

DrawnMonthly == {NULL, snapshotDoc("monthly", <<2026, 1>>, 0, <<BaselineB>>)}

DrawnYearly == {snapshotDoc("yearly", <<2026>>, 0, <<BaselineA>>)}

InitRankVars ==
  /\ rankIn = NULL
  /\ rankOut = NULL

LoadAllStatsStep ==
  /\ rankIn # NULL
  /\ rankOut = NULL
  /\ rankOut' = loadAllStats(rankIn.userList, rankIn.snaps, rankIn.outcomes)
  /\ UNCHANGED <<rankIn, engineVars, progVars, fetchVars, keyVars, viewVars, passVars>>

NextRank == LoadAllStatsStep

\* Interleaved clients: from the empty database, or from the loaded state
\* with the whole budget of addUser operations.
Init ==
  /\ InitPassVars
  /\ InitViewVars
  /\ InitKeyVars
  /\ jobOpsLeft = 0
  /\ serial = FALSE
  /\ InitProgressVars
  /\ InitFetchVars
  /\ InitRankVars
  /\ \/ InitFresh /\ addsLeft = MaxAddsFresh
     \/ InitLoaded /\ addsLeft = MaxAdds

Next ==
  \/ \E c \in Clients : Mount(c)
  \/ \E c \in Clients : SyncJobCounts(c)
  \/ \E c \in Clients : LoadUsers(c)
  \/ \E c \in Clients : FetchBatch(c)
  \/ \E c \in Clients : EnsureQuery(c)
  \/ \E c \in Clients : EnsureAddDoc(c)
  \/ \E c \in Clients : LoadAllJobs(c)
  \/ \E c \in Clients, username \in Usernames, name \in Names : AddUser(c, username, name)
  \/ \E c \in Clients : AddUserDoc(c)
  \/ \E c \in Clients : ReloadUsers(c)
  \/ \E c \in Clients : PatchRead(c)
  \/ \E w \in inflight : UpdateDocLands(w)

Spec == Init /\ [][Next]_vars

\* The same steps with operations run one at a time, while the clock
\* advances and database calls fail.
NextSeq ==
  \/ Next
  \/ Tick
  \/ \E c \in Clients : EnsureFails(c)
  \/ \E w \in inflight : UpdateDocFails(w)

InitSeq ==
  /\ InitPassVars
  /\ InitViewVars
  /\ InitKeyVars
  /\ jobOpsLeft = 0
  /\ serial = TRUE
  /\ InitProgressVars
  /\ InitFetchVars
  /\ InitRankVars
  /\ InitFresh
  /\ addsLeft = MaxAdds

SpecSeq == InitSeq /\ [][NextSeq]_vars

InitProgress ==
  /\ InitPassVars
  /\ InitViewVars
  /\ InitKeyVars
  /\ jobOpsLeft = 0
  /\ InitFresh
  /\ InitFetchVars
  /\ InitRankVars
  /\ addsLeft = 0
  /\ serial = FALSE
  /\ progCur \in DrawnStats
  /\ \E b \in DrawnEntries : progSnap \in DrawnSnapshots(b)
  /\ prevEnd \in {snapshotDoc("weekly", <<2026, 2>>, 0, us) :
                    us \in {<<asEntry(progCur)>>, <<OtherEntry, asEntry(progCur)>>,
                            <<asEntry(progCur), TieEntry>>}}
  /\ progOut = NULL
  /\ prevOut = NULL

SpecProgress == InitProgress /\ [][NextProgress]_vars

\* One fetchUserStats(username, jobsApplied) call, about to issue its first
\* request.
InitFetch ==
  /\ InitPassVars
  /\ InitViewVars
  /\ InitKeyVars
  /\ jobOpsLeft = 0
  /\ InitFresh
  /\ InitProgressVars
  /\ addsLeft = 0
  /\ serial = FALSE
  /\ fetchIn \in {[username |-> "alice", jobsApplied |-> j, payload |-> d] :
                     j \in DrawnJobs, d \in DrawnPayloads}
  /\ fetchAttempt = 0
  /\ fetchPc = "request"
  /\ fetchLog = <<>>
  /\ fetchOut = NULL
  /\ InitRankVars

SpecFetch == InitFetch /\ [][NextFetch]_vars

\* One loadAllStats pass about to run.
InitRank ==
  /\ InitPassVars
  /\ InitViewVars
  /\ InitKeyVars
  /\ jobOpsLeft = 0
  /\ InitFresh
  /\ InitProgressVars
  /\ InitFetchVars
  /\ addsLeft = 0
  /\ serial = FALSE
  /\ \E r \in DrawnRosters :
       rankIn \in [userList : {r}, outcomes : [1..Len(r) -> DrawnOutcomes],
                   snaps : [weekly : DrawnWeekly, monthly : DrawnMonthly,
                            yearly : DrawnYearly]]
  /\ rankOut = NULL

SpecRank == InitRank /\ [][NextRank]_vars

\* One computation of the keys about to run.
InitKeys ==
  /\ InitPassVars
  /\ InitViewVars
  /\ InitFresh
  /\ InitProgressVars
  /\ InitFetchVars
  /\ InitRankVars
  /\ addsLeft = 0
  /\ jobOpsLeft = 0
  /\ serial = FALSE
  /\ \E instant \in FirstInstant..(FirstInstant + KeyWindow), gap \in Gaps, tz \in Zones :
       keyIn = [instant |-> instant, later |-> instant + gap, tz |-> tz]
  /\ keyOut = NULL

SpecKeys == InitKeys /\ [][NextKeys]_vars

\* When the App last ran loadAllData: just now, or a week ago with the
\* page open since.
LoadInstants(instant) == {instant, instant - 7 * 24}

\* The modal of one App about to be opened: the stored snapshots and the
\* snapshots held in memory are drawn.
InitPrev ==
  /\ InitPassVars
  /\ InitProgressVars
  /\ InitFetchVars
  /\ InitRankVars
  /\ InitViewVars
  /\ serial = TRUE
  /\ addsLeft = 0
  /\ jobOpsLeft = 0
  /\ \E instant \in ViewInstants, tz \in Zones :
       /\ keyIn = [instant |-> instant, later |-> instant, tz |-> tz]
       /\ snapshots \in DrawnCollections(instant)
       /\ \E held \in SUBSET Periods, loaded \in LoadInstants(instant) :
            memSnap = [c \in Clients |->
                         [p \in Periods |-> IF p \in held THEN HeldSnapshot(p, loaded)
                                            ELSE NULL]]
  /\ keyOut = NULL
  /\ usersCol = <<[username |-> "alice", name |-> "N", jobsApplied |-> 0]>>
  /\ inflight = {}
  /\ jobsCol = <<>>
  /\ allJobs = [c \in Clients |-> <<>>]
  /\ lastCall = [c \in Clients |-> NULL]
  /\ now = StartDay
  /\ failures = 0
  /\ pc = [c \in Clients |-> "idle"]
  /\ users = [c \in Clients |-> userList(usersCol)]
  /\ loading = [c \in Clients |-> FALSE]
  /\ op = [c \in Clients |-> IdleOp]

SpecPrev == InitPrev /\ [][NextPrev]_vars

\* A pass about to enter its loop over a roster of n users.
newPass(loop, n) ==
  [loop |-> loop, n |-> n, i |-> 0, stage |-> "loop", started |-> {}, returned |-> {},
   attempt |-> [k \in 1..n |-> 0], pushed |-> 0]

\* A plausible slip: the whole rest of the roster is fetched at once.
sliceToEnd(n, i) == (i + 1)..n

\* usersToFetch.slice(i, i + BATCH_SIZE), as the positions 1..n it holds.
slice(n, i) == (i + 1)..(IF i + BATCH_SIZE < n THEN i + BATCH_SIZE ELSE n)

\* The fetches of the pass that have started and not returned.
inFlightOf(p) == p.started \ p.returned

\* The batch a roster position belongs to.
batchOf(k) == (k - 1) \div BATCH_SIZE

\* Loop head: with i < n the batch is sliced and one fetchUserStats call
\* per member is started; otherwise the loop is left.
StartBatch ==
  /\ pass.stage = "loop"
  /\ IF pass.i < pass.n
     THEN pass' = [pass EXCEPT !.stage = "await",
                               !.started = pass.started \cup slice(pass.n, pass.i)]
     ELSE pass' = [pass EXCEPT !.stage = "done"]
  /\ UNCHANGED <<engineVars, progVars, fetchVars, rankVars, keyVars, viewVars>>

\* A fetch in flight meets a retryable error and goes round its request
\* loop again.
FetchRetries(k) ==
  /\ k \in inFlightOf(pass)
  /\ pass.attempt[k] < maxRetries
  /\ pass' = [pass EXCEPT !.attempt[k] = pass.attempt[k] + 1]
  /\ UNCHANGED <<engineVars, progVars, fetchVars, rankVars, keyVars, viewVars>>

\* A fetch in flight returns its stats (real or fallback).
FetchReturns(k) ==
  /\ k \in inFlightOf(pass)
  /\ pass' = [pass EXCEPT !.returned = pass.returned \cup {k}]
  /\ UNCHANGED <<engineVars, progVars, fetchVars, rankVars, keyVars, viewVars>>

\* await Promise.all(batchPromises) resumes once every fetch of the batch
\* has returned; the results are pushed and, unless this was the last
\* batch, the one-second pause starts.
BatchJoined ==
  /\ pass.stage = "await"
  /\ slice(pass.n, pass.i) \subseteq pass.returned
  /\ pass' = [pass EXCEPT !.pushed = pass.pushed + Cardinality(slice(pass.n, pass.i)),
                          !.stage = IF pass.i + BATCH_SIZE < pass.n THEN "pause" ELSE "next"]
  /\ UNCHANGED <<engineVars, progVars, fetchVars, rankVars, keyVars, viewVars>>

\* The pause, if any, is over: i += BATCH_SIZE and back to the loop head.
NextBatch ==
  /\ pass.stage \in {"pause", "next"}
  /\ pass' = [pass EXCEPT !.i = pass.i + BATCH_SIZE, !.stage = "loop"]
  /\ UNCHANGED <<engineVars, progVars, fetchVars, rankVars, keyVars, viewVars>>

NextBatchLoop ==
  \/ StartBatch
  \/ \E k \in 1..MaxPassRoster : FetchRetries(k)
  \/ \E k \in 1..MaxPassRoster : FetchReturns(k)
  \/ BatchJoined
  \/ NextBatch

\* One pass of either loop over a roster of 0..MaxPassRoster users.
InitBatch ==
  /\ InitFresh
  /\ addsLeft = 0
  /\ jobOpsLeft = 0
  /\ serial = FALSE
  /\ InitProgressVars
  /\ InitFetchVars
  /\ InitRankVars
  /\ InitKeyVars
  /\ InitViewVars
  /\ \E loop \in BatchLoops, n \in 0..MaxPassRoster : pass = newPass(loop, n)

SpecBatch == InitBatch /\ [][NextBatchLoop]_vars

\* addUser operations started under SpecJobs.
MaxAddsJobs == 1

\* The job log: operations run one at a time from the empty database, one
\* user is added, database calls may fail.
InitJobs ==
  /\ InitPassVars
  /\ InitViewVars
  /\ InitKeyVars
  /\ serial = TRUE
  /\ InitProgressVars
  /\ InitFetchVars
  /\ InitRankVars
  /\ InitFresh
  /\ addsLeft = MaxAddsJobs
  /\ jobOpsLeft = MaxJobOps

NextJobs ==
  \/ \E c \in Clients : Mount(c)
  \/ \E c \in Clients : SyncJobCounts(c)
  \/ \E c \in Clients : LoadUsers(c)
  \/ \E c \in Clients : FetchBatch(c)
  \/ \E c \in Clients : EnsureQuery(c)
  \/ \E c \in Clients : EnsureAddDoc(c)
  \/ \E c \in Clients : LoadAllJobs(c)
  \/ \E c \in Clients : AddUser(c, "alice", "N")
  \/ \E c \in Clients : AddUserDoc(c)
  \/ \E c \in Clients : ReloadUsers(c)
  \/ \E c \in Clients : PatchRead(c)
  \/ \E w \in inflight : UpdateDocLands(w)
  \/ \E c \in Clients : AddJob(c, "alice", "t", "t", "t")
  \/ \E c \in Clients : AddJobDoc(c)
  \/ \E c \in Clients : AddJobCount(c)
  \/ \E c \in Clients, jobId \in 1..MaxJobs : DeleteJob(c, jobId)
  \/ \E c \in Clients : DeleteJobDoc(c)
  \/ \E c \in Clients : DeleteJobCount(c)
  \/ \E c \in Clients : JobReloadUsers(c)
  \/ \E c \in Clients : JobStats(c)
  \/ \E c \in Clients, jobId \in 1..MaxJobs : UpdateJobStatus(c, jobId)

SpecJobs == InitJobs /\ [][NextJobs]_vars

\* The next step of the handler an App is running: each of them follows an
\* awaited network or database call, which returns or fails.
Continue(c) ==
  \/ Mount(c)
  \/ SyncJobCounts(c)
  \/ LoadUsers(c)
  \/ FetchBatch(c)
  \/ EnsureQuery(c)
  \/ EnsureAddDoc(c)
  \/ LoadAllJobs(c)
  \/ AddUserDoc(c)
  \/ ReloadUsers(c)
  \/ PatchRead(c)
  \/ AddJobDoc(c)
  \/ AddJobCount(c)
  \/ DeleteJobDoc(c)
  \/ DeleteJobCount(c)
  \/ JobReloadUsers(c)
  \/ JobStats(c)

\* A write an App has issued reaches the database.
WriteLands(c) == \E w \in inflight : w.client = c /\ UpdateDocLands(w)

MaxJobOpsLive == 2

\* The empty database before any App has mounted; one user may be added
\* and MaxJobOpsLive job operations started.
InitLive ==
  /\ InitPassVars
  /\ InitViewVars
  /\ InitKeyVars
  /\ InitProgressVars
  /\ InitFetchVars
  /\ InitRankVars
  /\ InitFresh
  /\ serial = TRUE
  /\ addsLeft = MaxAddsJobs
  /\ jobOpsLeft = MaxJobOpsLive

\* The job log under the assumption that every awaited call eventually
\* returns or fails; the user's own calls are under no obligation.
SpecLive ==
  /\ InitLive
  /\ [][NextJobs]_vars
  /\ \A c \in Clients : WF_vars(Continue(c)) /\ WF_vars(WriteLands(c))

\* The job log while the clock advances: the App stays open over a change
\* of period.
NextRollover ==
  \/ NextJobs
  \/ Tick

SpecRollover == InitLive /\ [][NextRollover]_vars

\* The form inputs drawn: empty, blank, padded and plain.
DrawnUsernames == {"", " ", " alice ", "bob"}

DrawnNames == {" ", " N "}

DrawnTitles == {" ", " t "}

DrawnCompanies == {"", " t "}

DrawnUrls == {" ", " t "}

\* addUser as the form calls it, with the call observed.
AddUserCall(c, newUsername, newName) ==
  /\ pc[c] = "idle"
  /\ MayMove(c)
  /\ addsLeft > 0
  /\ UNCHANGED <<serial, jobsCol, allJobs, jobOpsLeft, progVars, fetchVars, rankVars, keyVars, viewVars, passVars>>
  /\ \E call \in Calls :
       /\ addUser(c, newUsername, newName, call)
       /\ lastCall' = [lastCall EXCEPT ![c] =
                         [handler |-> "addUser", args |-> <<newUsername, newName>>,
                          fetched |-> call.fetched, returned |-> call.returned]]
  /\ UNCHANGED <<usersCol, snapshots, inflight, now, failures, users, memSnap>>

\* addJob as the form calls it, with the call observed.
AddJobCall(c, selectedJobUsername, jobTitle, jobCompany, jobUrl) ==
  /\ pc[c] = "idle"
  /\ MayMove(c)
  /\ jobOpsLeft > 0
  /\ Len(jobsCol) < MaxJobs
  /\ UNCHANGED <<serial, jobsCol, allJobs, progVars, fetchVars, rankVars, keyVars, viewVars, passVars>>
  /\ \E call \in Calls :
       /\ addJob(c, selectedJobUsername, jobTitle, jobCompany, jobUrl, call)
       /\ lastCall' = [lastCall EXCEPT ![c] =
                         [handler |-> "addJob",
                          args |-> <<selectedJobUsername, jobTitle, jobCompany, jobUrl>>,
                          fetched |-> call.fetched, returned |-> call.returned]]
  /\ UNCHANGED <<usersCol, snapshots, inflight, now, failures, addsLeft, users, memSnap>>

\* The snapshots of StartDay once alice has been added on that day.
RosterSnapshots ==
  [i \in 1..Len(PeriodOrder) |->
     [LoadedSnapshots[i] EXCEPT !.users =
        <<newUserSnapshot("alice", "N",
                          fetchUserStats("alice", 0, upstreamSolved("alice", StartDay)))>>]]

\* Job operations started under SpecValidate.
MaxJobOpsValidate == 1

\* Every App has mounted and alice has been added: the forms are about to
\* be submitted.
InitValidate ==
  /\ InitPassVars
  /\ InitViewVars
  /\ InitKeyVars
  /\ serial = TRUE
  /\ InitProgressVars
  /\ InitFetchVars
  /\ InitRankVars
  /\ usersCol = <<[username |-> "alice", name |-> "N", jobsApplied |-> 0]>>
  /\ snapshots = RosterSnapshots
  /\ inflight = {}
  /\ jobsCol = <<>>
  /\ allJobs = [c \in Clients |-> <<>>]
  /\ lastCall = [c \in Clients |-> NULL]
  /\ now = StartDay
  /\ failures = 0
  /\ pc = [c \in Clients |-> "idle"]
  /\ users = [c \in Clients |-> userList(usersCol)]
  /\ memSnap = [c \in Clients |->
                  [p \in Periods |->
                     withId(RosterSnapshots, CHOOSE i \in 1..Len(PeriodOrder) : PeriodOrder[i] = p)]]
  /\ loading = [c \in Clients |-> FALSE]
  /\ op = [c \in Clients |-> IdleOp]
  /\ addsLeft = MaxAddsJobs
  /\ jobOpsLeft = MaxJobOpsValidate

NextValidate ==
  \/ \E c \in Clients, newUsername \in DrawnUsernames, newName \in DrawnNames :
       AddUserCall(c, newUsername, newName)
  \/ \E c \in Clients, selectedJobUsername \in {"", "alice"}, jobTitle \in DrawnTitles,
        jobCompany \in DrawnCompanies, jobUrl \in DrawnUrls :
       AddJobCall(c, selectedJobUsername, jobTitle, jobCompany, jobUrl)
  \/ \E c \in Clients : AddUserDoc(c)
  \/ \E c \in Clients : ReloadUsers(c)
  \/ \E c \in Clients : PatchRead(c)
  \/ \E w \in inflight : UpdateDocLands(w)
  \/ \E c \in Clients : SyncJobCounts(c)
  \/ \E c \in Clients : FetchBatch(c)
  \/ \E c \in Clients : EnsureQuery(c)
  \/ \E c \in Clients : AddJobDoc(c)
  \/ \E c \in Clients : AddJobCount(c)
  \/ \E c \in Clients : JobReloadUsers(c)
  \/ \E c \in Clients : JobStats(c)
  \/ \E c \in Clients : LoadAllJobs(c)

SpecValidate == InitValidate /\ [][NextValidate]_vars

(***************************************************************************)
(* Properties of the progress functions (SpecProgress)                     *)
(***************************************************************************)

\* The baseline entry of the drawn current record, stated on the snapshot
\* itself: the entry carrying the username, if the snapshot has one.
BaselinePresent ==
  /\ progSnap # NULL
  /\ \E k \in 1..Len(progSnap.users) : progSnap.users[k].username = progCur.username

DrawnBaseline ==
  progSnap.users[CHOOSE k \in 1..Len(progSnap.users) :
                   progSnap.users[k].username = progCur.username]

Clamped(n) == IF n < 0 THEN 0 ELSE n

\* C7: with a baseline entry present, computeProgress returns
\* max(0, current - baseline) for easy, medium, hard, total and jobsApplied;
\* baseline {easy 5, medium 2, hard 1, total 8, jobsApplied 1} and current
\* {easy 7, medium 2, hard 1, total 10, jobsApplied 2} give easy 2, medium 0,
\* hard 0, total 2, jobsApplied 1 and xp 2.5 (5 half-points).
ProgressIsClampedDelta ==
  (progOut # NULL /\ BaselinePresent) =>
    /\ progOut.easy = Clamped(progCur.easy - DrawnBaseline.easy)
    /\ progOut.medium = Clamped(progCur.medium - DrawnBaseline.medium)
    /\ progOut.hard = Clamped(progCur.hard - DrawnBaseline.hard)
    /\ progOut.total = Clamped(progCur.total - DrawnBaseline.total)
    /\ progOut.jobsApplied = Clamped(progCur.jobsApplied - DrawnBaseline.jobsApplied)
    /\ (progCur = ScenarioCurrent /\ DrawnBaseline = ScenarioBaseline) =>
         /\ progOut.easy = 2 /\ progOut.medium = 0 /\ progOut.hard = 0
         /\ progOut.total = 2 /\ progOut.jobsApplied = 1 /\ progOut.xp = 5

\* The worked example has been computed.
ProgressScenarioComputed ==
  /\ progOut # NULL
  /\ BaselinePresent
  /\ progCur = ScenarioCurrent
  /\ DrawnBaseline = ScenarioBaseline
  /\ progOut.total = 2

\* C8: every numeric field of a computeProgress result (easy, medium, hard,
\* total, jobsApplied, xp) is at least 0, whatever the current record and
\* the baseline (present or absent, larger or smaller than the current).
ProgressNeverNegative ==
  progOut # NULL =>
    /\ progOut.easy >= 0 /\ progOut.medium >= 0 /\ progOut.hard >= 0
    /\ progOut.total >= 0 /\ progOut.jobsApplied >= 0 /\ progOut.xp >= 0

\* A result computed against a baseline that exceeds the current record.
ProgressBaselineAboveCurrent ==
  /\ progOut # NULL
  /\ BaselinePresent
  /\ DrawnBaseline.easy > progCur.easy
  /\ DrawnBaseline.jobsApplied > progCur.jobsApplied

\* C9: when the snapshot is absent, or holds no entry for the username, the
\* progress is all zeros (easy, medium, hard, total, jobsApplied, xp),
\* whatever the current record holds.
ProgressZeroWithoutBaseline ==
  (progOut # NULL /\ ~BaselinePresent) =>
    /\ progOut.easy = 0 /\ progOut.medium = 0 /\ progOut.hard = 0
    /\ progOut.total = 0 /\ progOut.jobsApplied = 0 /\ progOut.xp = 0

\* A user with all-time xp and no baseline entry has been given a progress.
ProgressNewUserComputed ==
  /\ progOut # NULL
  /\ ~BaselinePresent
  /\ progSnap # NULL
  /\ progCur.xp > 0
  /\ progCur.total > 0

WeightedXp(r) == r.jobsApplied + 2 * r.easy + 4 * r.medium + 8 * r.hard

StoredFor(col, period, periodKey) ==
  {i \in 1..Len(col) : col[i].period = period /\ col[i].periodKey = periodKey}

\* C1: in every reachable state, interleaved ensureSnapshot calls included,
\* the leaderboardSnapshots collection holds at most one document per
\* (period, periodKey).
OneSnapshotPerPeriodKey ==
  \A i, j \in 1..Len(snapshots) :
    (snapshots[i].period = snapshots[j].period
       /\ snapshots[i].periodKey = snapshots[j].periodKey) => i = j

\* The step is one of client c's.
ClientMoved(c) == pc'[c] # pc[c] \/ op'[c] # op[c]

\* What ensureSnapshot handed back for a granularity, read after the step:
\* in the results being collected, or in the published snapshots once the
\* third granularity returned.
ReturnedSnapshot(pcc, opc, memc, period) ==
  IF pcc \in {"idle", "loadJobs"} THEN memc[period] ELSE opc.results[period]

\* The entries ensureSnapshot is to store for a list of stats.
StatsCopy(stats) ==
  [k \in 1..Len(stats) |->
     [username |-> stats[k].username, name |-> stats[k].name,
      jobsApplied |-> stats[k].jobsApplied, easy |-> stats[k].easy,
      medium |-> stats[k].medium, hard |-> stats[k].hard, total |-> stats[k].total,
      xp |-> stats[k].xp]]

\* C2: an ensureSnapshot call that follows a call which stored the snapshot
\* of the same granularity and period key finds exactly one document,
\* writes nothing, and returns that document unchanged, whatever stats it
\* was given.
EnsureExistingReturnsStored ==
  [][\A c \in Clients :
       (pc[c] = "ensure" /\ ClientMoved(c) /\ failures' = failures) =>
         LET period == PeriodOrder[op[c].period]
             stored == StoredFor(snapshots, period, getPeriodKey(period, now))
         IN stored # {} =>
              /\ Cardinality(stored) = 1
              /\ snapshots' = snapshots
              /\ \A i \in stored :
                   ReturnedSnapshot(pc'[c], op'[c], memSnap'[c], period)
                     = [id |-> i, period |-> snapshots[i].period,
                        periodKey |-> snapshots[i].periodKey,
                        createdAt |-> snapshots[i].createdAt, users |-> snapshots[i].users]
    ]_vars

\* A call was answered from the store although its stats differ from the
\* stored baseline.
EnsureAnsweredWithOtherStats ==
  \E c \in Clients, p \in Periods :
    /\ pc[c] \in {"ensure", "ensureAdd"}
    /\ op[c].results[p] # NULL
    /\ p \notin op[c].created
    /\ op[c].cur # <<>>
    /\ op[c].results[p].users # <<>>
    /\ op[c].results[p].users # StatsCopy(op[c].cur)

\* C3: when no snapshot of the current (period, periodKey) exists,
\* ensureSnapshot goes on to store one, and the stored and returned snapshot
\* has one users entry per element of stats, in the same order, copying
\* username, name, jobsApplied, easy, medium, hard, total and xp.
EnsureCreatesBaselineCopy ==
  [][\A c \in Clients :
       (ClientMoved(c) /\ failures' = failures) =>
         /\ (pc[c] = "ensure"
               /\ StoredFor(snapshots, PeriodOrder[op[c].period],
                            getPeriodKey(PeriodOrder[op[c].period], now)) = {})
              => (pc'[c] = "ensureAdd" /\ snapshots' = snapshots)
         /\ pc[c] = "ensureAdd" =>
              LET period == PeriodOrder[op[c].period]
                  stored == [period |-> period, periodKey |-> op[c].periodKey,
                             createdAt |-> now, users |-> StatsCopy(op[c].cur)]
              IN /\ snapshots' = Append(snapshots, stored)
                 /\ ReturnedSnapshot(pc'[c], op'[c], memSnap'[c], period)
                      = [id |-> Len(snapshots) + 1, period |-> period,
                         periodKey |-> op[c].periodKey, createdAt |-> now,
                         users |-> StatsCopy(op[c].cur)]
    ]_vars

\* A snapshot has just been created from a roster with solved problems.
EnsureCreatedFromRoster ==
  \E c \in Clients, p \in Periods :
    /\ p \in op[c].created
    /\ op[c].cur # <<>>
    /\ op[c].results[p] # NULL
    /\ op[c].results[p].users = StatsCopy(op[c].cur)
    /\ \E k \in 1..Len(op[c].cur) : op[c].cur[k].total > 0

\* C4: once a snapshot holds a baseline entry, no later step removes or
\* changes it, two addUser operations for different usernames that
\* interleave their read and their updateDoc included.
BaselineEntriesNeverLost ==
  [][\A i \in 1..Len(snapshots) :
       /\ i <= Len(snapshots')
       /\ \A k \in 1..Len(snapshots[i].users) :
            \E k2 \in 1..Len(snapshots'[i].users) :
              snapshots'[i].users[k2] = snapshots[i].users[k]
    ]_vars

\* C5: a snapshot document is never deleted, its period, periodKey and
\* createdAt never change, and the only change to it is the appending of a
\* user entry.
SnapshotsOnlyGrow ==
  [][/\ Len(snapshots') >= Len(snapshots)
     /\ \A i \in 1..Len(snapshots) :
          /\ snapshots'[i].period = snapshots[i].period
          /\ snapshots'[i].periodKey = snapshots[i].periodKey
          /\ snapshots'[i].createdAt = snapshots[i].createdAt
          /\ \/ snapshots'[i].users = snapshots[i].users
             \/ /\ Len(snapshots'[i].users) = Len(snapshots[i].users) + 1
                /\ SubSeq(snapshots'[i].users, 1, Len(snapshots[i].users))
                     = snapshots[i].users
    ]_vars

\* addUserToCurrentSnapshots of client c has just completed without a
\* database error.
PatchCompleted(c) ==
  /\ pc[c] = "sync"
  /\ op[c].kind = "addUser"
  /\ op[c].patchKeys # NULL
  /\ ~op[c].patchErr

\* The snapshot was current for the keys the patch computed.
WasCurrent(doc, keys) == \E p \in Periods : doc.period = p /\ doc.periodKey = keys[p]

HadUser(doc, username) == \E k \in 1..Len(doc.users) : doc.users[k].username = username

PatchEntry(c) ==
  [username |-> op[c].username, name |-> op[c].name,
   jobsApplied |-> op[c].stats.jobsApplied, easy |-> op[c].stats.easy,
   medium |-> op[c].stats.medium, hard |-> op[c].stats.hard,
   total |-> op[c].stats.total, xp |-> op[c].stats.xp]

\* C6: after addUserToCurrentSnapshots completes without a database error,
\* each of the current weekly, monthly and yearly snapshots that existed
\* when it read the collection holds an entry for the username: appended,
\* equal to the stats passed in, where it was absent; the document as it
\* was where it was present.  Each granularity is patched on its own.
PatchAddsUserToCurrentSnapshots ==
  \A c \in Clients :
    PatchCompleted(c) =>
      /\ Len(snapshots) = Len(op[c].patchRead)
      /\ \A i \in 1..Len(op[c].patchRead) :
           LET read == op[c].patchRead[i]
           IN WasCurrent(read, op[c].patchKeys) =>
                IF HadUser(read, op[c].username)
                THEN snapshots[i] = read
                ELSE snapshots[i] = [read EXCEPT !.users = Append(read.users, PatchEntry(c))]

\* A patch completed that appended the user to the snapshots of all three
\* granularities.
PatchAppendedToAllThree ==
  \E c \in Clients :
    /\ PatchCompleted(c)
    /\ \A p \in Periods :
         \E i \in 1..Len(op[c].patchRead) :
           /\ op[c].patchRead[i].period = p
           /\ op[c].patchRead[i].periodKey = op[c].patchKeys[p]
           /\ ~HadUser(op[c].patchRead[i], op[c].username)
           /\ HadUser(snapshots[i], op[c].username)

(***************************************************************************)
(* Properties of fetchUserStats (SpecFetch)                                *)
(***************************************************************************)

RequestsOf(log) == SelectSeq(log, LAMBDA e : e.event = "request")

WaitsOf(log) == SelectSeq(log, LAMBDA e : e.event = "wait")

\* A 5xx response or a network failure.
TransientFailure(resp) ==
  IF resp.kind = "network" THEN TRUE ELSE resp.status >= 500

AllTransient(log) ==
  \A k \in 1..Len(log) : log[k].event = "request" => TransientFailure(log[k].response)

\* The message of a failure: of the rejected fetch, or of the error thrown
\* for the response's status.
FailureMessage(resp) ==
  IF resp.kind = "network" THEN "Failed to fetch"
  ELSE IF resp.status = 500 THEN "HTTP error! status: 500"
  ELSE "HTTP error! status: 404"

\* The call made four requests with waits of 1000, 2000 and 4000 ms between them.
FourRequestsWithBackoff(log) ==
  /\ Len(log) = 7
  /\ \A k \in {1, 3, 5, 7} : log[k].event = "request"
  /\ log[2] = [event |-> "wait", ms |-> 1000]
  /\ log[4] = [event |-> "wait", ms |-> 2000]
  /\ log[6] = [event |-> "wait", ms |-> 4000]

ZeroStats(out) ==
  out.easy = 0 /\ out.medium = 0 /\ out.hard = 0 /\ out.total = 0 /\ out.xp = 0

\* C15: a call whose every request ended in a 5xx response or a network
\* failure has issued exactly 4 requests, waited 1000, 2000 and 4000 ms
\* before the 1st, 2nd and 3rd retry, and returned zero easy, medium, hard,
\* total and xp with error set to the message of the last failure.
FetchExhaustsRetries ==
  (fetchPc = "done" /\ fetchOut # NULL /\ AllTransient(fetchLog)) =>
    /\ FourRequestsWithBackoff(fetchLog)
    /\ ZeroStats(fetchOut)
    /\ fetchOut.error = FailureMessage(fetchLog[Len(fetchLog)].response)

\* A user-not-found answer: a non-5xx unsuccessful response whose body says
\* the user does not exist, or a successful response whose payload status
\* is not 'success'.
UserNotFoundAnswer(resp) ==
  /\ resp.kind = "response"
  /\ \/ resp.status >= 200 /\ resp.status <= 299 /\ resp.body \in {"notexist", "error"}
     \/ ~(resp.status >= 200 /\ resp.status <= 299) /\ resp.status < 500
          /\ resp.body = "notexist"

\* C16: a user-not-found answer is terminal at whatever attempt it arrives:
\* the request that received it is the last thing the call did (no backoff,
\* no further request), and the call returned an error result with zero
\* stats.
FetchNotFoundIsTerminal ==
  \A k \in 1..Len(fetchLog) :
    (fetchLog[k].event = "request" /\ UserNotFoundAnswer(fetchLog[k].response)) =>
      /\ k = Len(fetchLog)
      /\ fetchPc = "done"
      /\ fetchOut # NULL
      /\ fetchOut.error # NoError
      /\ ZeroStats(fetchOut)

\* A 404 saying the user does not exist arrived on the second retry.
FetchNotFoundOnRetry ==
  /\ fetchLog # <<>>
  /\ fetchLog[Len(fetchLog)].event = "request"
  /\ fetchLog[Len(fetchLog)].attempt = 2
  /\ UserNotFoundAnswer(fetchLog[Len(fetchLog)].response)
  /\ fetchLog[Len(fetchLog)].response.status = 404
  /\ fetchOut # NULL

(***************************************************************************)
(* Properties of the ranked lists (SpecRank)                               *)
(***************************************************************************)

\* The four ranked lists of a completed pass.
RankedLists ==
  {rankOut.userStats, rankOut.weeklyStats, rankOut.monthlyStats, rankOut.yearlyStats}

\* (a.xp, a.total) is lexicographically greater than (b.xp, b.total).
RanksAbove(a, b) == a.xp > b.xp \/ (a.xp = b.xp /\ a.total > b.total)

\* C12: in each ranked list of loadAllStats over N users the ranks are
\* exactly 1..N, one each, and a user with the lexicographically greater
\* (xp, total) has the smaller rank; users equal in xp are ordered by
\* descending total.
RankedListsOrdered ==
  rankOut # NULL =>
    \A list \in RankedLists :
      /\ Len(list) = Len(rankIn.userList)
      /\ {list[i].rank : i \in 1..Len(list)} = 1..Len(rankIn.userList)
      /\ \A i, j \in 1..Len(list) :
           /\ (list[i].rank = list[j].rank) => i = j
           /\ RanksAbove(list[i], list[j]) => list[i].rank < list[j].rank

\* The position of a username in the roster.
RosterIndex(username) ==
  CHOOSE i \in 1..Len(rankIn.userList) : rankIn.userList[i].username = username

\* Three users were ranked, and the first two tie on xp: the one with the
\* greater total, later in the roster, was moved ahead.
RankedTieBrokenByTotal ==
  /\ rankOut # NULL
  /\ Len(rankOut.userStats) = 3
  /\ rankOut.userStats[1].xp = rankOut.userStats[2].xp
  /\ rankOut.userStats[1].total > rankOut.userStats[2].total
  /\ RosterIndex(rankOut.userStats[1].username) > RosterIndex(rankOut.userStats[2].username)
  /\ rankOut.userStats[1].rank = 1
  /\ rankOut.userStats[2].rank = 2

\* C13: in every ranked list (all-time and weekly, monthly, yearly
\* progress) no user whose fetch returned an error has a better (smaller)
\* rank than a user whose fetch succeeded.
ErrorUsersRankedLowest ==
  rankOut # NULL =>
    \A list \in RankedLists :
      \A i, j \in 1..Len(list) :
        (list[i].error # NoError /\ list[j].error = NoError) => list[i].rank > list[j].rank

\* The rows of a list that belong to a username.
RowsOf(list, username) == {i \in 1..Len(list) : list[i].username = username}

\* C14: whichever users' fetches fail, the pass completes and every ranked
\* list holds exactly one row per roster user; a failing user's row carries
\* an error, and every other user's all-time row carries the counts returned
\* for that user.
RankPassIsolatesFailures ==
  rankOut # NULL =>
    /\ rankOut.loading = FALSE
    /\ \A list \in RankedLists :
         /\ Len(list) = Len(rankIn.userList)
         /\ \A idx \in 1..Len(rankIn.userList) :
              LET rows == RowsOf(list, rankIn.userList[idx].username)
              IN /\ Cardinality(rows) = 1
                 /\ \A i \in rows :
                      (list[i].error # NoError) <=> (rankIn.outcomes[idx].status # "success")
    /\ \A idx \in 1..Len(rankIn.userList) :
         rankIn.outcomes[idx].status = "success" =>
           \A i \in RowsOf(rankOut.userStats, rankIn.userList[idx].username) :
             /\ rankOut.userStats[i].easy = rankIn.outcomes[idx].easySolved
             /\ rankOut.userStats[i].medium = rankIn.outcomes[idx].mediumSolved
             /\ rankOut.userStats[i].hard = rankIn.outcomes[idx].hardSolved
             /\ rankOut.userStats[i].total = rankIn.outcomes[idx].totalSolved
             /\ rankOut.userStats[i].jobsApplied = rankIn.userList[idx].jobsApplied

\* A pass over three users completed although the first user's fetch
\* failed; the other two have solved problems.
RankPassWithFailure ==
  /\ rankOut # NULL
  /\ Len(rankIn.userList) = 3
  /\ rankIn.outcomes[1].status = "error"
  /\ rankIn.outcomes[2].status = "success"
  /\ rankIn.outcomes[3].status = "success"
  /\ rankIn.outcomes[2].totalSolved > 0
  /\ rankIn.outcomes[3].totalSolved > 0
  /\ Len(rankOut.weeklyStats) = 3

(***************************************************************************)
(* Properties of the job log (SpecJobs)                                    *)
(***************************************************************************)

\* No client is inside an operation and no write is on its way.
Quiescent == \A c \in Clients : ~Busy(c)

\* C17: whenever no operation is running, each user document's jobsApplied
\* equals the number of job documents that carry its username.
JobsAppliedMatchesJobs ==
  Quiescent =>
    \A i \in 1..Len(usersCol) :
      usersCol[i].jobsApplied =
        Cardinality({j \in 1..Len(jobsCol) : jobsCol[j].exists
                                             /\ jobsCol[j].username = usersCol[i].username})

\* C18: a stored jobsApplied is never negative, whatever addJob, deleteJob
\* and syncJobCounts calls have run.
JobsAppliedNeverNegative ==
  \A i \in 1..Len(usersCol) : usersCol[i].jobsApplied >= 0

\* deleteJob has just written the counter of an owner whose locally held
\* counter was 0: the floor acted and the stored counter is 0.
DeleteJobFloorActed ==
  \E c \in Clients :
    /\ op[c].kind = "deleteJob"
    /\ pc[c] = "jobReload"
    /\ IF op[c].userToUpdate = NULL THEN FALSE
       ELSE /\ op[c].userToUpdate.jobsApplied = 0
            /\ usersCol[op[c].userToUpdate.id].jobsApplied = 0

\* The status that follows on the cycle Applied -> Assessment -> Interview
\* -> Offer -> Applied; Applied follows a status outside the four.
FollowingStatus(status) ==
  CASE status = "Applied" -> "Assessment"
    [] status = "Assessment" -> "Interview"
    [] status = "Interview" -> "Offer"
    [] OTHER -> "Applied"

\* C19: every job document is created with status Applied, and every step
\* that changes the stored status of a job moves it to the status that
\* follows on the cycle.
JobStatusAdvancesOneStep ==
  [][/\ \A j \in (1..Len(jobsCol')) \ (1..Len(jobsCol)) : jobsCol'[j].status = "Applied"
     /\ \A j \in 1..Len(jobsCol) :
          jobsCol'[j].status # jobsCol[j].status
            => jobsCol'[j].status = FollowingStatus(jobsCol[j].status)]_vars

(***************************************************************************)
(* Properties of the form validation (SpecValidate)                        *)
(***************************************************************************)

\* An input that is empty once its surrounding blanks are removed.
Blank(input) == input \in {"", " "}

\* The input names this roster entry, with or without surrounding blanks.
Denotes(input, username) == input = username \/ (input = " alice " /\ username = "alice")

\* The call client c has just made is one the forms must refuse.
MustRefuse(c, call) ==
  IF call.handler = "addUser"
  THEN \/ Blank(call.args[1])
       \/ Blank(call.args[2])
       \/ \E i \in 1..Len(users[c]) : Denotes(call.args[1], users[c][i].username)
  ELSE \/ call.args[1] = ""
       \/ Blank(call.args[2])
       \/ Blank(call.args[3])
       \/ Blank(call.args[4])

\* C20: an addUser call with an empty (after trimming) username or name or
\* with a username of the loaded roster, and an addJob call with no selected
\* user or an empty (after trimming) title, company or URL, returns false
\* with no stats fetch and no database request, and leaves the roster, the
\* jobs, the snapshots and the loading flag as they were.
InvalidCallsRefused ==
  [][\A c \in Clients :
       (lastCall'[c] # lastCall[c] /\ MustRefuse(c, lastCall'[c]))
         => /\ lastCall'[c].returned = "false"
            /\ ~lastCall'[c].fetched
            /\ UNCHANGED <<usersCol, jobsCol, snapshots, inflight, failures, pc, op,
                           users, allJobs, memSnap, loading>>]_vars

\* One client's last call was an addUser with a padded username of the
\* roster, the other's an addJob with a blank title: both returned false.
BothFormsRefused ==
  /\ lastCall["c1"] # NULL
  /\ lastCall["c2"] # NULL
  /\ lastCall["c1"] = [handler |-> "addUser", args |-> <<" alice ", " N ">>,
                       fetched |-> FALSE, returned |-> "false"]
  /\ lastCall["c2"] = [handler |-> "addJob", args |-> <<"alice", " ", " t ", " t ">>,
                       fetched |-> FALSE, returned |-> "false"]

(***************************************************************************)
(* Properties of addUser (SpecValidate, Spec)                              *)
(***************************************************************************)

\* C21: a user document is written only by an addUser whose fetch returned
\* a result without error, and an addUser whose fetch ended in an error
\* returns false at once, creates no user document, modifies no snapshot
\* and leaves loading false.
AddUserWritesOnlyAfterGoodFetch ==
  [][/\ Len(usersCol') > Len(usersCol)
          => \E c \in Clients :
               /\ op[c].kind = "addUser"
               /\ op[c].stats # NULL
               /\ op[c].stats.error = NoError
               /\ usersCol'[Len(usersCol')].username = op[c].username
     /\ \A c \in Clients :
          (lastCall'[c] # lastCall[c] /\ lastCall'[c].handler = "addUser"
             /\ lastCall'[c].fetched /\ lastCall'[c].returned = "false")
            => /\ UNCHANGED <<usersCol, snapshots, inflight>>
               /\ pc'[c] = "idle"
               /\ loading'[c] = FALSE]_vars

\* An addUser for a new username has fetched, got an error and returned
\* false: the roster still holds alice only.
AddUserFetchFailed ==
  \E c \in Clients :
    /\ lastCall[c] = [handler |-> "addUser", args |-> <<"bob", " N ">>,
                      fetched |-> TRUE, returned |-> "false"]
    /\ Len(usersCol) = 1
    /\ loading[c] = FALSE

\* C22: in every reachable state no two user documents carry the same
\* username.
UsernamesUnique ==
  \A i, j \in 1..Len(usersCol) : usersCol[i].username = usersCol[j].username => i = j

(***************************************************************************)
(* Properties of the period keys (SpecKeys)                                *)
(***************************************************************************)

\* The calendar day of an instant in the reference zone.
ReferenceDay(instant) == (instant + TIMEZONE) \div 24

\* The Monday that starts the ISO week of a day (day 4 was a Monday).
MondayOf(day) == day - ((day + 3) % 7)

\* Lexicographic order of two strings given as character codes.
RECURSIVE StringLess(_, _)
StringLess(a, b) ==
  IF b = <<>> THEN FALSE
  ELSE IF a = <<>> THEN TRUE
  ELSE IF Head(a) # Head(b) THEN Head(a) < Head(b)
  ELSE StringLess(Tail(a), Tail(b))

\* C23: two instants of the same ISO week, calendar month or calendar year
\* of the reference zone have the same weekly, monthly or yearly key; an
\* instant exactly one week after another has a different weekly key that
\* compares greater as a string.
KeysFollowReferenceCalendar ==
  keyOut # NULL =>
    LET d1 == ReferenceDay(keyIn.instant)
        d2 == ReferenceDay(keyIn.later)
    IN /\ MondayOf(d1) = MondayOf(d2) => keyOut.current.weekly = keyOut.currentLater.weekly
       /\ (civilFromDays(d1).year = civilFromDays(d2).year
             /\ civilFromDays(d1).month = civilFromDays(d2).month)
            => keyOut.current.monthly = keyOut.currentLater.monthly
       /\ civilFromDays(d1).year = civilFromDays(d2).year
            => keyOut.current.yearly = keyOut.currentLater.yearly
       /\ keyIn.later = keyIn.instant + 168
            => /\ keyOut.current.weekly # keyOut.currentLater.weekly
               /\ StringLess(keyOut.current.weekly, keyOut.currentLater.weekly)

\* A caller in Tokyo computed "2025-W52" and, one week later, "2026-W01".
KeysAcrossWeekYear ==
  /\ keyOut # NULL
  /\ keyIn.tz = 9
  /\ keyIn.later = keyIn.instant + 168
  /\ keyOut.current.weekly = <<50, 48, 50, 53, 45, 87, 53, 50>>
  /\ keyOut.currentLater.weekly = <<50, 48, 50, 54, 45, 87, 48, 49>>

\* C24: every key computed is the key of the instant as seen in the
\* reference zone: a caller in any zone computes what a caller in the
\* reference zone computes at the same instants.
KeysIndependentOfCallerZone ==
  keyOut # NULL => keyOut = keysComputed(keyIn.instant, keyIn.later, TIMEZONE)

(***************************************************************************)
(* Properties of computePrevStats (SpecProgress)                           *)
(***************************************************************************)

\* The rows of the previous-period list for a username.
PrevRows(username) ==
  {k \in 1..Len(prevOut.ranked) : prevOut.ranked[k].username = username}

\* The entries of the end snapshot for a username.
EndEntries(username) ==
  {i \in 1..Len(prevEnd.users) : prevEnd.users[i].username = username}

\* C26: computePrevStats returns one record per user of the end snapshot,
\* and a user absent from the start snapshot is credited the end
\* snapshot's jobsApplied, easy, medium and hard in full.
PrevStatsFullCreditFromZero ==
  prevOut # NULL =>
    /\ Len(prevOut.ranked) = Len(prevEnd.users)
    /\ \A i \in 1..Len(prevEnd.users) :
         LET endUser == prevEnd.users[i]
         IN /\ Cardinality(PrevRows(endUser.username)) = Cardinality(EndEntries(endUser.username))
            /\ (\A k \in 1..Len(progSnap.users) : progSnap.users[k].username # endUser.username)
                 => \A k \in PrevRows(endUser.username) :
                      /\ prevOut.ranked[k].jobsApplied = endUser.jobsApplied
                      /\ prevOut.ranked[k].easy = endUser.easy
                      /\ prevOut.ranked[k].medium = endUser.medium
                      /\ prevOut.ranked[k].hard = endUser.hard

\* alice is in the end snapshot with a solved problem and not in the start
\* snapshot: the previous-period list credits it, computeProgress on the
\* same pair returned zeros.
PrevStatsCreditedNewUser ==
  /\ prevOut # NULL
  /\ progOut # NULL
  /\ \A k \in 1..Len(progSnap.users) : progSnap.users[k].username # "alice"
  /\ progCur.easy = 1
  /\ \E k \in PrevRows("alice") : prevOut.ranked[k].easy = 1
  /\ progOut.easy = 0

\* C27: for a user present in the end and in the start snapshot,
\* computePrevStats gives what computeProgress gives for the end entry
\* against the start entry, on easy, medium, hard, total, jobsApplied and xp.
PrevStatsAgreeWithProgress ==
  prevOut # NULL =>
    LET startUser == findSnapshotUser(progSnap, progCur.username)
        expected == computeProgress(progCur, startUser)
    IN startUser # NULL
         => \A k \in PrevRows(progCur.username) :
              /\ prevOut.ranked[k].easy = expected.easy
              /\ prevOut.ranked[k].medium = expected.medium
              /\ prevOut.ranked[k].hard = expected.hard
              /\ prevOut.ranked[k].total = expected.total
              /\ prevOut.ranked[k].jobsApplied = expected.jobsApplied
              /\ prevOut.ranked[k].xp = expected.xp

(***************************************************************************)
(* Properties of the previous-leaderboard modal (SpecPrev)                 *)
(***************************************************************************)

\* C25: when handleViewPreviousLeaderboard ends and no snapshot is stored
\* for the requested (period, prevKey), or none is held in memory for the
\* period, the modal shows prevDataMissing with an empty list and
\* loadingPrevStats false, and nothing was written.
PreviousViewReportsMissing ==
  [][(/\ viewOp # NULL
      /\ viewOp' = NULL
      /\ \/ StoredFor(snapshots, viewOp.period, viewOp.prevKey) = {}
         \/ viewOp.endSnap = NULL)
       => /\ view'.prevDataMissing
          /\ view'.prevLeaderboardStats = <<>>
          /\ ~view'.loadingPrevStats
          /\ snapshots' = snapshots
          /\ usersCol' = usersCol]_vars

\* The handler has ended on a stored start snapshot, without a failure,
\* while the App held no snapshot for the period: data is reported missing.
PreviousViewWithoutEndSnapshot ==
  /\ viewOp = NULL
  /\ view.showLeaderboardModal
  /\ view.prevDataMissing
  /\ ~view.loadingPrevStats
  /\ failures = 0
  /\ memSnap[ViewClient][view.leaderboardModalType] = NULL
  /\ StoredFor(snapshots, view.leaderboardModalType,
               prevKey(view.leaderboardModalType, keyIn.instant, keyIn.tz)) # {}

(***************************************************************************)
(* Properties of the batch loop (SpecBatch)                                *)
(***************************************************************************)

\* C28: during one pass at most BATCH_SIZE fetchUserStats calls are in
\* flight, and a fetch of a later batch has started only if every fetch of
\* every earlier batch has returned, retries included.
BatchesOfThreeInTurn ==
  /\ Cardinality(inFlightOf(pass)) <= BATCH_SIZE
  /\ \A k \in pass.started : \A j \in 1..pass.n :
       batchOf(j) < batchOf(k) => j \in pass.returned

\* The third batch is in flight after fetches of the earlier batches went
\* through all their retries.
ThirdBatchInFlight ==
  /\ pass.n = MaxPassRoster
  /\ inFlightOf(pass) # {}
  /\ \A k \in inFlightOf(pass) : batchOf(k) = 2
  /\ \E j \in 1..pass.n : batchOf(j) = 0 /\ pass.attempt[j] = maxRetries
  /\ \E j \in 1..pass.n : batchOf(j) = 1 /\ pass.attempt[j] = maxRetries

(***************************************************************************)
(* Failures inside ensureSnapshot (SpecSeq)                                *)
(***************************************************************************)

\* C29: a failure inside ensureSnapshot during loadAllData leaves the
\* snapshot an App holds for that granularity as it was: a snapshot held in
\* memory is never replaced by none.
HeldSnapshotSurvivesFailure ==
  [][\A c \in Clients : \A p \in Periods :
       memSnap[c][p] # NULL => memSnap'[c][p] # NULL]_vars

(***************************************************************************)
(* Termination of the handlers (SpecLive)                                  *)
(***************************************************************************)

PrevRanksBreakTiesByTotal ==
  prevOut # NULL =>
    /\ \A k \in 1..Len(prevOut.ranked) : prevOut.ranked[k].rank = k
    /\ \A i, k \in 1..Len(prevOut.ranked) :
         i < k => /\ prevOut.ranked[i].xp >= prevOut.ranked[k].xp
                  /\ (prevOut.ranked[i].xp = prevOut.ranked[k].xp
                        => prevOut.ranked[i].total >= prevOut.ranked[k].total)

(***************************************************************************)
(* syncJobCounts (SpecJobs)                                                *)
(***************************************************************************)

BaselinesHoldActualCounts ==
  \A i \in 1..Len(snapshots) : \A k \in 1..Len(snapshots[i].users) :
    LET entry == snapshots[i].users[k]
    IN \E date \in snapshots[i].createdAt..now :
         LET solved == upstreamSolved(entry.username, date)
         IN /\ entry.easy = solved.easySolved
            /\ entry.medium = solved.mediumSolved
            /\ entry.hard = solved.hardSolved
            /\ entry.total = solved.totalSolved

(***************************************************************************)
(* Baselines of loadAllStats after a rollover (SpecRollover)               *)
(***************************************************************************)

\* C34: when addJob or deleteJob runs loadAllStats(updatedUsers), the
\* baseline snapshot used for each granularity carries that granularity's
\* current period key.
JobStatsUseCurrentBaselines ==
  [][\A c \in Clients :
       (pc[c] = "jobStats" /\ pc'[c] # "jobStats")
         => \A p \in Periods :
              LET baseline == baselineFor(UNDEFINED, memSnap[c][p])
              IN baseline # NULL => baseline.periodKey = getPeriodKey(p, now)]_vars

(***************************************************************************)
(* The two snapshots compared by the modal (SpecPrev)                      *)
(***************************************************************************)

\* C35: when handleViewPreviousLeaderboard calls computePrevStats, endSnap
\* is the snapshot of the period current at that instant and startSnap
\* (stored under prevKey) that of the period just before it: the two keys
\* differ.
PreviousViewComparesAdjacentPeriods ==
  [][(/\ viewOp # NULL
      /\ viewOp' = NULL
      /\ ~view'.prevDataMissing)
       => /\ viewOp.endSnap.periodKey = currentKeyNow(viewOp.period, keyIn.instant, TIMEZONE)
          /\ viewOp.prevKey = prevKey(viewOp.period, keyIn.instant, TIMEZONE)
          /\ viewOp.prevKey # viewOp.endSnap.periodKey]_vars

(***************************************************************************)
(* What fetchUserStats retries (SpecFetch)                                 *)
(***************************************************************************)

\* An unsuccessful response below 500 whose body does not say that the user
\* does not exist.
ClientErrorAnswer(resp) ==
  /\ resp.kind = "response"
  /\ ~ok(resp)
  /\ resp.status < 500
  /\ resp.body # "notexist"

\* C36: a non-5xx unsuccessful response that does not report a missing
\* user ends the call: the request that received it is the last thing the
\* call did (no backoff, no further request) and an error result is
\* returned.
FetchClientErrorIsTerminal ==
  \A k \in 1..Len(fetchLog) :
    (fetchLog[k].event = "request" /\ ClientErrorAnswer(fetchLog[k].response)) =>
      /\ k = Len(fetchLog)
      /\ fetchPc = "done"
      /\ fetchOut # NULL
      /\ fetchOut.error # NoError

(***************************************************************************)
(* Bounds and totality of fetchUserStats (SpecFetch)                       *)
(***************************************************************************)

\* The requests a call has issued so far.
RequestsIssued == {k \in 1..Len(fetchLog) : fetchLog[k].event = "request"}

\* A successful response carrying a payload whose status is 'success'.
SuccessAnswer(resp) == resp.kind = "response" /\ ok(resp) /\ resp.body = "success"

\* C37: whatever the upstream answers, one call issues at most
\* maxRetries + 1 = 4 requests and always ends by returning a result with
\* the caller's username and jobsApplied; error is null exactly when the
\* last answer was a 'success' payload, whose counts the result then holds,
\* and easy, medium, hard, total and xp are 0 otherwise.
FetchBoundedAndTotal ==
  /\ Cardinality(RequestsIssued) <= maxRetries + 1
  /\ fetchPc = "request" => fetchAttempt <= maxRetries
  /\ fetchPc # "done" => fetchOut = NULL
  /\ (fetchPc = "done" /\ fetchIn # NULL) =>
       /\ fetchOut # NULL
       /\ fetchOut.username = fetchIn.username
       /\ fetchOut.jobsApplied = fetchIn.jobsApplied
       /\ fetchOut.error = NoError <=> SuccessAnswer(fetchLog[Len(fetchLog)].response)
       /\ fetchOut.error = NoError =>
            /\ fetchOut.easy = fetchIn.payload.easySolved
            /\ fetchOut.medium = fetchIn.payload.mediumSolved
            /\ fetchOut.hard = fetchIn.payload.hardSolved
            /\ fetchOut.total = fetchIn.payload.totalSolved
       /\ fetchOut.error # NoError => ZeroStats(fetchOut)

\* A call with 2 jobs went through a network failure, a 404, a 500 and, on
\* its fourth request, an unparsable body: it returned the error result.
FetchFourMixedFailures ==
  /\ fetchPc = "done"
  /\ fetchOut # NULL
  /\ fetchOut.error # NoError
  /\ fetchIn.jobsApplied = 2
  /\ Cardinality(RequestsIssued) = maxRetries + 1
  /\ fetchLog[1].response.kind = "network"
  /\ fetchLog[3].response = [kind |-> "response", status |-> 404, body |-> "error"]
  /\ fetchLog[5].response = [kind |-> "response", status |-> 500, body |-> "success"]
  /\ fetchLog[7].response = [kind |-> "response", status |-> 200, body |-> "invalid"]

(***************************************************************************)
(* Entries of a snapshot (Spec)                                            *)
(***************************************************************************)

\* C38: every stored snapshot's users list holds at most one entry per
\* username.
SnapshotEntriesUnique ==
  \A i \in 1..Len(snapshots) : \A k, l \in 1..Len(snapshots[i].users) :
    snapshots[i].users[k].username = snapshots[i].users[l].username => k = l

(***************************************************************************)
(* Historical snapshots under addUser (SpecSeq)                            *)
(***************************************************************************)

\* C39: every write addUserToCurrentSnapshots issues goes to a snapshot
\* whose periodKey is the current key of its granularity at that time, and
\* a stored snapshot changes only by such a write landing: snapshots of
\* past periods are never modified.
PatchLeavesHistoryAlone ==
  [][/\ \A w \in inflight' \ inflight :
          snapshots[w.id].periodKey = getPeriodKey(snapshots[w.id].period, now)
     /\ \A i \in 1..Len(snapshots) :
          snapshots'[i] # snapshots[i] =>
            \E w \in inflight : w.id = i /\ snapshots'[i] = [snapshots[i] EXCEPT !.users = w.users]
    ]_vars

\* After a change of month alice was added: the weekly snapshot, created
\* earlier and still current, has gained her entry, and last month's
\* snapshot has not.
PatchSkippedLastMonth ==
  /\ now > StartDay
  /\ failures = 0
  /\ inflight = {}
  /\ \E i, j \in 1..Len(snapshots) :
       /\ snapshots[i].period = "monthly"
       /\ snapshots[i].periodKey # getPeriodKey("monthly", now)
       /\ ~hasUser(snapshots[i], "alice")
       /\ snapshots[j].period = "weekly"
       /\ snapshots[j].periodKey = getPeriodKey("weekly", now)
       /\ snapshots[j].createdAt < now
       /\ hasUser(snapshots[j], "alice")

====
